---- MODULE Spec2Model ----
(***************************************************************************)
(* A state-machine model of the Finance-Coach-AI browser client: the typed *)
(* HTTP client (src/lib/api.ts), the auth provider and route guard, and    *)
(* the stateful view components that call the client.                      *)
(*                                                                         *)
(* Text is modelled as a sequence of words, so that String.includes is a   *)
(* contiguous-subsequence test and template strings are concatenations.    *)
(* JavaScript null/undefined is the value Null.                            *)
(***************************************************************************)
EXTENDS Integers, Sequences, FiniteSets, TLC

VARIABLES
    \* ---- ApiClient (src/lib/api.ts, second revision, lines 184-435)
    apiTimeout,      \* this.timeout
    currentUserId,   \* the id handed to apiClient.setCurrentUserId
    inflight,        \* the HTTP calls that have not settled yet
    started,         \* number of client operations started
    fetches,         \* number of fetch() invocations
    lastSent,        \* what the last fetch() carried
    lastSettled,     \* how the last settled call ended
    \* ---- input and output of one run of the error normalisation
    normIn, normOut,
    \* ---- AuthProvider / firebase (src/contexts/AuthContext.tsx)
    fbUser,          \* the identity provider's current user (auth.currentUser)
    notifyPending,   \* the provider still owes onAuthStateChanged a call
    user, loading,   \* AuthProvider state
    signInPhase, signOutPhase,
    loginBusy,       \* LoginScreen.isLoading
    loginToast,      \* the notice LoginScreen showed last
    routeView,       \* what ProtectedRoute rendered last
    \* ---- Index (src/pages/Index.tsx)
    isBackendConnected,
    healthPending,   \* checkBackendConnection has not settled yet
    activeTab,       \* the selected tab of the page's Tabs
    availableMonths,
    monthsPending,   \* runs of loadAvailableMonths that have not settled
    selectedPeriod,
    \* ---- FileUpload (src/components/FileUpload.tsx)
    fuFile, fuPeriod, fuUploading, fuProgress, fuPhase,
    fuToastShown,    \* toastShownRef.current
    fuInterval,      \* the progress interval is running
    fuIntervalDue,   \* ticks of 500 ms until its next callback
    fuResetTimers,   \* ticks until each pending 3 s reset timer fires
    fuUploads,       \* uploads started
    fuSuccessCalls,  \* calls of onUploadSuccess
    fuLastResult,    \* how uploadFile settled last
    fuToast,         \* title of the last toast FileUpload raised
    fuStaleCalls,    \* periods of the uploads pending for unmounted instances
    \* ---- InsightsContainer (src/components/insights/InsightsContainer.tsx)
    icSelected,      \* <<selectedYear, selectedMonth>>
    icInsights, icLoading, icError,
    icFetches,       \* the periods of the pending getInsights calls
    \* ---- Dashboard (src/components/dashboard/Dashboard.tsx)
    dbData,          \* financialData
    dbLoading,
    dbLoads,         \* the pending runs of loadFinancialData
    \* ---- ChatInterface (src/components/advisor/ChatInterface.tsx)
    chSelected,      \* <<selectedYear, selectedMonth>>
    chSessionId,     \* currentSessionId
    chMonths,        \* availableMonths
    chLoadingMonths, \* isLoadingMonths
    chMonthsPending, \* loadAvailableMonths has not settled yet
    chHeld,          \* history: who held which session id for which period
    chMessages,      \* messages after the greeting
    chHistoryLength,
    chTyping,        \* isTyping
    chConnection,    \* connectionStatus
    chChecks,        \* runs of checkConnection that have not settled
    chSend,          \* the pending sendChatMessage call, if any
    chClears,        \* periods of the pending clearChatHistory calls
    chSends,         \* messages sent
    chToast,         \* title of the last toast ChatInterface raised
    chExchanged,     \* history: the conversation exchanged for each period
    \* ---- calculateCategoryTotals (src/lib/financialUtils.ts)
    ctTransactions,  \* the argument of one call
    ctResult,        \* what the call returned
    \* ---- TransactionTable (src/components/dashboard/TransactionTable.tsx)
    ttData,          \* the data prop
    ttSearchTerm, ttCategoryFilter, ttSortField, ttSortDirection,
    \* ---- DataUpload (src/components/upload/DataUpload.tsx)
    duFiles,         \* files
    duDragOver,      \* dragOver
    duPending,       \* ids of the uploadFile calls that have not settled
    duToast,         \* title of the last toast DataUpload raised
    duOffered,       \* history: the files of the drop or selection just handled
    \* ---- BudgetPlanning (src/components/insights/BudgetPlanning.tsx)
    bpApplied,       \* appliedRecommendations
    bpSelectedRec,   \* selectedRec
    bpPlanOpen,      \* isPlanDialogOpen
    bpDetailsOpen,   \* the recommendation whose 'Learn More' dialog is open
    bpToast,         \* the last toast BudgetPlanning raised
    bpBefore         \* history: the last toggle and the selection before it

apiVars  == <<apiTimeout, inflight, started, fetches, lastSent, lastSettled>>
normVars == <<normIn, normOut>>
authVars == <<fbUser, notifyPending, user, loading, signInPhase, signOutPhase,
              loginBusy, loginToast, routeView, currentUserId>>

indexVars == <<isBackendConnected, healthPending, activeTab, availableMonths,
               monthsPending, selectedPeriod>>
uploadVars == <<fuFile, fuPeriod, fuUploading, fuProgress, fuPhase, fuToastShown,
                fuInterval, fuIntervalDue, fuResetTimers, fuUploads,
                fuSuccessCalls, fuLastResult, fuToast, fuStaleCalls>>
insightsVars == <<icSelected, icInsights, icLoading, icError, icFetches>>
dashVars == <<dbData, dbLoading, dbLoads>>
chatVars == <<chSelected, chSessionId, chMonths, chLoadingMonths,
              chMonthsPending, chHeld, chMessages, chHistoryLength, chTyping,
              chConnection, chChecks, chSend, chClears, chSends, chToast,
              chExchanged>>

viewVars == <<indexVars, uploadVars, insightsVars, dashVars, chatVars>>

totalsVars == <<ctTransactions, ctResult>>
tableVars == <<ttData, ttSearchTerm, ttCategoryFilter, ttSortField,
               ttSortDirection>>
dataUploadVars == <<duFiles, duDragOver, duPending, duToast, duOffered>>

budgetVars == <<bpApplied, bpSelectedRec, bpPlanOpen, bpDetailsOpen, bpToast,
                bpBefore>>

\* what is modelled on its own, apart from the page Index renders
standaloneVars == <<totalsVars, tableVars, dataUploadVars, budgetVars>>

vars == <<apiVars, normVars, authVars, viewVars, standaloneVars>>

Null == "null"
Users == {"alice", "bob"}

-----------------------------------------------------------------------------
(* Bounds of the model *)

\* client operations started in one behaviour
MaxCalls == 2
\* uploads started in one behaviour
MaxUploads == 2
\* runs of loadFinancialData, and getInsights calls, pending at once
MaxLoads == 2
\* chat messages sent in one behaviour
MaxSends == 2
\* runs of checkConnection pending at once
MaxChecks == 2
\* clearChatHistory calls pending at once
MaxClears == 1
\* transactions handed to calculateCategoryTotals
MaxTransactions == 3
\* rows handed to TransactionTable
MaxRows == 2
\* the maxFiles prop of DataUpload
MaxFiles == 2
\* files in one drop or one selection
MaxDrop == 2

-----------------------------------------------------------------------------
(* Text *)

\* word.toLowerCase(), for the capitalised words of the vocabulary
Lower(w) ==
    CASE w = "Timeout" -> "timeout"
      [] w = "Upload"  -> "upload"
      [] w = "Request" -> "request"
      [] w = "Gateway" -> "gateway"
      [] w = ".CSV"    -> ".csv"
      [] w = ".XLSX"   -> ".xlsx"
      [] w = "A"       -> "a"
      [] w = "B"       -> "b"
      [] OTHER         -> w

\* s.toLowerCase()
ToLowerCase(s) == [i \in 1..Len(s) |-> Lower(s[i])]

\* s.includes(needle) on word sequences
Includes(s, needle) ==
    \E i \in 0..(Len(s) - Len(needle)) :
        \A j \in 1..Len(needle) : s[i + j] = needle[j]

-----------------------------------------------------------------------------
(* JavaScript values met by the client *)

Undefined  == [t |-> "undefined", s |-> <<>>]
JsStr(ws)  == [t |-> "string", s |-> ws]
\* a non-empty array of objects, e.g. the detail list of a validation error
JsArray    == [t |-> "array", s |-> <<>>]

\* ToBoolean: undefined and "" are falsy, an array is truthy
Truthy(v) ==
    \/ v.t = "array"
    \/ v.t = "string" /\ v.s # <<>>

\* a || b
Or(a, b) == IF Truthy(a) THEN a ELSE b

\* String(v), as new Error(v) applies it to its message
ToStr(v) ==
    CASE v.t = "string"    -> v.s
      [] v.t = "array"     -> <<"[object", "Object]">>
      [] v.t = "undefined" -> <<"undefined">>

\* A settled promise: a returned value, or a thrown value that is an Error
\* instance (isError) or not.
Returned == [kind |-> "value", isError |-> FALSE, name |-> "", message |-> <<>>]
Err(name, msg) == [kind |-> "throw", isError |-> TRUE, name |-> name, message |-> msg]
NonErrorThrown == [kind |-> "throw", isError |-> FALSE, name |-> "", message |-> <<>>]

-----------------------------------------------------------------------------
(* The server, as fetch shows it *)

Statuses == {200, 204, 422, 500}

\* response.ok
Ok(status) == status >= 200 /\ status <= 299

\* response.statusText
StatusText(status) ==
    CASE status = 200 -> <<"OK">>
      [] status = 204 -> <<"No", "Content">>
      [] status = 422 -> <<"Unprocessable", "Entity">>
      [] status = 500 -> <<"Internal", "Server", "Error">>

DetailValues  == {Undefined, JsStr(<<>>), JsArray,
                  JsStr(<<"No", "financial", "data", "found">>),
                  JsStr(<<"Gateway", "Timeout">>)}
MessageValues == {Undefined, JsStr(<<>>), JsStr(<<"Server", "exploded">>)}

\* A response body: text that is not JSON, the JSON value null, another JSON
\* value without properties (a number, a string), or a JSON object.
Bodies ==
    { [json |-> j, detail |-> Undefined, message |-> Undefined] :
          j \in {"invalid", "null", "scalar"} }
    \cup
    { [json |-> "object", detail |-> d, message |-> m] :
          d \in DetailValues, m \in MessageValues }

\* What fetch() rejects with: the abort of its signal, a network failure, or
\* a thrown value that is no Error.
AbortError   == Err("AbortError", <<"The", "operation", "was", "aborted">>)
NetworkError == Err("TypeError", <<"Failed", "to", "fetch">>)
Rejections   == {NetworkError, NonErrorThrown}

\* response.json(): rejects with a SyntaxError when the body is not JSON
JsonSyntaxError == Err("SyntaxError", <<"Unexpected", "token">>)
\* reading a property of null
NullPropertyError == Err("TypeError", <<"Cannot", "read", "properties", "of", "null">>)

-----------------------------------------------------------------------------
(* ApiClient: the pure part *)

DefaultApiTimeout == 240000
UploadMinTimeout  == 180000

Max(a, b) == IF a >= b THEN a ELSE b

\* api.ts:260
UploadTimeout(timeout) == Max(timeout, UploadMinTimeout)

RequestTimeoutMsg ==
    <<"Request", "timeout", "-", "the", "file", "may", "be", "too", "large",
      "or", "processing", "is", "taking", "longer", "than", "expected", ".",
      "Please", "try", "again", "or", "use", "a", "smaller", "file", ".">>
UploadTimeoutMsg ==
    <<"Upload", "timeout", "-", "Your", "file", "is", "being", "processed",
      "in", "the", "background", ".", "Please", "check", "back", "in", "a",
      "few", "minutes", "or", "try", "uploading", "a", "smaller", "file", ".">>
UnknownErrorMsg   == <<"Unknown", "error", "occurred">>
UploadUnknownMsg  == <<"Upload", "failed", "-", "unknown", "error">>
InsightsFailedMsg == <<"Failed", "to", "fetch", "insights">>

\* `HTTP ${response.status}: ${response.statusText}`
HttpStatusMsg(status) ==
    <<"HTTP", ToString(status) \o ":">> \o StatusText(status)
\* `Upload failed with status ${response.status}`
UploadStatusMsg(status) ==
    <<"Upload", "failed", "with", "status", ToString(status)>>

\* errorData after the inner try/catch around response.json(): {} when the
\* body is not JSON (api.ts:224-229)
ErrorData(body) ==
    IF body.json = "invalid"
    THEN [json |-> "object", detail |-> Undefined, message |-> Undefined]
    ELSE body

\* The body of request's try block once fetch has resolved (api.ts:223-237)
RequestTry(status, body) ==
    IF ~Ok(status)
    THEN LET errorData == ErrorData(body)
         IN  IF errorData.json = "null"
             THEN NullPropertyError
             ELSE Err("Error",
                      ToStr(Or(errorData.detail,
                               Or(errorData.message,
                                  JsStr(HttpStatusMsg(status))))))
    ELSE IF body.json = "invalid" THEN JsonSyntaxError ELSE Returned

RequestCatch_rethrowAll(error) ==
    IF error.isError THEN error ELSE Err("Error", UnknownErrorMsg)

\* request's catch block (api.ts:238-247)
RequestCatch(error) ==
    IF error.isError
    THEN IF error.name = "AbortError"
         THEN Err("Error", RequestTimeoutMsg)
         ELSE error
    ELSE Err("Error", UnknownErrorMsg)

\* uploadFile's try block once fetch has resolved (api.ts:277-294)
UploadTry(status, body) ==
    IF ~Ok(status)
    THEN LET errorData == ErrorData(body)
         IN  IF errorData.json = "null"
             THEN NullPropertyError
             ELSE Err("Error",
                      ToStr(Or(errorData.detail,
                               Or(errorData.message,
                                  JsStr(UploadStatusMsg(status))))))
    ELSE IF body.json = "invalid" THEN JsonSyntaxError ELSE Returned

\* uploadFile's catch block (api.ts:295-305)
UploadCatch(error) ==
    IF error.isError
    THEN IF error.name = "AbortError"
         THEN Err("Error", UploadTimeoutMsg)
         ELSE error
    ELSE Err("Error", UploadUnknownMsg)

\* getInsights once fetch has resolved (api.ts:412-416): no try/catch
InsightsTry(status, body) ==
    IF ~Ok(status)
    THEN IF body.json = "invalid" THEN JsonSyntaxError
         ELSE IF body.json = "null" THEN NullPropertyError
         ELSE Err("Error", ToStr(Or(body.detail, JsStr(InsightsFailedMsg))))
    ELSE IF body.json = "invalid" THEN JsonSyntaxError ELSE Returned

\* How an operation ends when the response has come in
AfterResponse(op, status, body) ==
    CASE op = "request" ->
             LET r == RequestTry(status, body)
             IN  IF r.kind = "throw" THEN RequestCatch(r) ELSE r
      [] op = "uploadFile" ->
             LET r == UploadTry(status, body)
             IN  IF r.kind = "throw" THEN UploadCatch(r) ELSE r
      [] op = "getInsights" -> InsightsTry(status, body)

\* How an operation ends when fetch itself rejects
AfterRejection(op, error) ==
    CASE op = "request"     -> RequestCatch(error)
      [] op = "uploadFile"  -> UploadCatch(error)
      [] op = "getInsights" -> error

-----------------------------------------------------------------------------
(* ApiClient: calls in flight *)

NoSend    == [op |-> "", headers |-> {}, listenerUser |-> Null]
NoSettled == [op |-> "", kind |-> "", isError |-> FALSE, attempts |-> 0]

Ops == {"request", "uploadFile", "getInsights"}

\* The headers of the fetch an operation issues.  request merges
\* options.headers into {'Content-Type': 'application/json'} (api.ts:215-218);
\* none of the public operations passes options.headers.  uploadFile and
\* getInsights pass no headers (api.ts:267-272, 411).
HeadersOf(op) ==
    IF op = "request" THEN {<<"Content-Type", "application/json">>} ELSE {}

\* Whether the operation arms setTimeout(() => controller.abort(), ...)
\* before it calls fetch (api.ts:209, 261; getInsights has none)
ArmsAbortTimer(op) == op \in {"request", "uploadFile"}

\* The delay of that timer
AbortDelay(op, timeout) ==
    CASE op = "request"     -> timeout
      [] op = "uploadFile"  -> UploadTimeout(timeout)
      [] op = "getInsights" -> 0

\* One fetch() of an operation
NewFetch(id, op, attempt) ==
    [id |-> id, op |-> op, phase |-> "fetch", status |-> 0,
     timerArmed |-> ArmsAbortTimer(op),
     timerMs |-> AbortDelay(op, apiTimeout),
     attempts |-> attempt]

\* A public operation is called: the timer is armed and fetch is issued
\* (api.ts:203-219, 251-272, 410-411)
Call(op) ==
    /\ started < MaxCalls
    /\ started' = started + 1
    /\ fetches' = fetches + 1
    /\ inflight' = inflight \cup {NewFetch(started + 1, op, 1)}
    /\ lastSent' = [op |-> op, headers |-> HeadersOf(op),
                    listenerUser |-> currentUserId]
    /\ UNCHANGED <<apiTimeout, lastSettled>>

\* The operation's promise settles and the caller sees `result`
Settle_retrying(c, result) ==
    IF result.kind = "throw" /\ c.attempts < 2
    THEN /\ inflight' = (inflight \ {c}) \cup {NewFetch(c.id, c.op, c.attempts + 1)}
         /\ fetches' = fetches + 1
         /\ UNCHANGED <<apiTimeout, started, lastSent, lastSettled>>
    ELSE /\ inflight' = inflight \ {c}
         /\ lastSettled' = [op |-> c.op, kind |-> result.kind,
                            isError |-> result.isError, attempts |-> c.attempts]
         /\ UNCHANGED <<apiTimeout, started, fetches, lastSent>>

Settle(c, result) ==
    /\ inflight' = inflight \ {c}
    /\ lastSettled' = [op |-> c.op, kind |-> result.kind,
                       isError |-> result.isError, attempts |-> c.attempts]
    /\ UNCHANGED <<apiTimeout, started, fetches, lastSent>>

\* fetch resolves with the response head; request and uploadFile clear
\* their timer (api.ts:221, 274) and go on to read the body
FetchResolves(c, status) ==
    /\ c.phase = "fetch"
    /\ inflight' = (inflight \ {c}) \cup
                   {[c EXCEPT !.phase = "body", !.status = status,
                              !.timerArmed = FALSE]}
    /\ UNCHANGED <<apiTimeout, started, fetches, lastSent, lastSettled>>

\* fetch rejects by itself
FetchRejects(c, error) ==
    /\ c.phase = "fetch"
    /\ Settle(c, AfterRejection(c.op, error))

\* The abort timer fires: controller.abort() makes fetch reject with an
\* AbortError
AbortTimerFires(c) ==
    /\ c.phase = "fetch"
    /\ c.timerArmed
    /\ Settle(c, AfterRejection(c.op, AbortError))

\* response.json() settles
BodyArrives(c, body) ==
    /\ c.phase = "body"
    /\ Settle(c, AfterResponse(c.op, c.status, body))

ApiNext ==
    /\ \/ \E op \in Ops : Call(op)
       \/ \E c \in inflight, status \in Statuses : FetchResolves(c, status)
       \/ \E c \in inflight, error \in Rejections : FetchRejects(c, error)
       \/ \E c \in inflight : AbortTimerFires(c)
       \/ \E c \in inflight, body \in Bodies : BodyArrives(c, body)
    /\ UNCHANGED <<normVars, standaloneVars, authVars, viewVars>>

-----------------------------------------------------------------------------
(* One run of request's error normalisation on an enumerated fetch outcome *)

Pending == [kind |-> "pending", isError |-> FALSE, name |-> "", message |-> <<>>]

FetchOutcomes ==
    { [t |-> "response", status |-> st, body |-> b, error |-> Returned] :
          st \in Statuses, b \in Bodies }
    \cup
    { [t |-> "reject", status |-> 0,
       body |-> [json |-> "invalid", detail |-> Undefined, message |-> Undefined],
       error |-> e] : e \in Rejections \cup {AbortError} }

\* request(endpoint) when fetch ends as `o`
RequestOutcome(o) ==
    IF o.t = "response"
    THEN AfterResponse("request", o.status, o.body)
    ELSE AfterRejection("request", o.error)

NormRequestSettles ==
    /\ normOut = Pending
    /\ normOut' = RequestOutcome(normIn)
    /\ UNCHANGED <<normIn, apiVars, authVars, viewVars, standaloneVars>>

NormNextCall ==
    /\ normOut # Pending
    /\ normIn' \in FetchOutcomes
    /\ normOut' = Pending
    /\ UNCHANGED <<apiVars, authVars, viewVars, standaloneVars>>

NormNext == NormRequestSettles \/ NormNextCall

-----------------------------------------------------------------------------
(* AuthProvider, firebase and the route guard *)

\* ProtectedRoute.tsx:13-29
ProtectedRoute_noLoadingCheck(u, l) ==
    IF u = Null THEN "redirect:/login" ELSE "children"

ProtectedRoute(u, l) ==
    IF l THEN "spinner"
    ELSE IF u = Null THEN "redirect:/login"
    ELSE "children"

\* apiClient.setCurrentUserId(id)
SetCurrentUserId(id) == currentUserId' = id

\* The onAuthStateChanged listener runs (AuthContext.tsx:22-30)
AuthStateChanged ==
    /\ notifyPending
    /\ notifyPending' = FALSE
    /\ user' = fbUser
    /\ SetCurrentUserId(fbUser)
    /\ loading' = FALSE
    /\ routeView' = ProtectedRoute(fbUser, FALSE)
    /\ UNCHANGED <<fbUser, signInPhase, signOutPhase, loginBusy, loginToast>>

\* LoginScreen.handleGoogleSignIn up to the popup (LoginScreen.tsx:14-17,
\* AuthContext.tsx:35-38)
HandleGoogleSignIn ==
    /\ ~loginBusy
    /\ signInPhase = "idle"
    /\ loginBusy' = TRUE
    /\ loading' = TRUE
    /\ signInPhase' = "popup"
    /\ routeView' = ProtectedRoute(user, TRUE)
    /\ UNCHANGED <<fbUser, notifyPending, user, signOutPhase, loginToast,
                   currentUserId>>

\* signInWithPopup resolves: the provider has a user and owes the listener a
\* call
PopupSucceeds(u) ==
    /\ signInPhase = "popup"
    /\ fbUser' = u
    /\ notifyPending' = TRUE
    /\ signInPhase' = "resolved"
    /\ UNCHANGED <<user, loading, signOutPhase, loginBusy, loginToast,
                   routeView, currentUserId>>

\* signInWithPopup rejects (popup closed, network): firebase.ts:94-97 rethrows
PopupFails ==
    /\ signInPhase = "popup"
    /\ signInPhase' = "rejected"
    /\ UNCHANGED <<fbUser, notifyPending, user, loading, signOutPhase,
                   loginBusy, loginToast, routeView, currentUserId>>

\* The rest of signIn and of handleGoogleSignIn: signIn catches the error
\* and resolves either way (AuthContext.tsx:40-44), so handleGoogleSignIn
\* goes on after its await (LoginScreen.tsx:18-30)
SignInReturns ==
    /\ signInPhase \in {"resolved", "rejected"}
    /\ loading' = FALSE
    /\ loginToast' = "Welcome!"
    /\ loginBusy' = FALSE
    /\ signInPhase' = "idle"
    /\ routeView' = ProtectedRoute(user, FALSE)
    /\ UNCHANGED <<fbUser, notifyPending, user, signOutPhase, currentUserId>>

\* AuthProvider.signOut is called (AuthContext.tsx:47-48)
SignOutCalled ==
    /\ signOutPhase = "idle"
    /\ signOutPhase' = "pending"
    /\ UNCHANGED <<fbUser, notifyPending, user, loading, signInPhase,
                   loginBusy, loginToast, routeView, currentUserId>>

\* firebase's signOut resolves
SignOutResolves ==
    /\ signOutPhase = "pending"
    /\ fbUser' = Null
    /\ notifyPending' = TRUE
    /\ signOutPhase' = "resolved"
    /\ UNCHANGED <<user, loading, signInPhase, loginBusy, loginToast,
                   routeView, currentUserId>>

\* firebase's signOut rejects: signOutUser rethrows and setUser(null) is
\* skipped
SignOutFails ==
    /\ signOutPhase = "pending"
    /\ signOutPhase' = "idle"
    /\ UNCHANGED <<fbUser, notifyPending, user, loading, signInPhase,
                   loginBusy, loginToast, routeView, currentUserId>>

\* AuthContext.tsx:49
SignOutReturns ==
    /\ signOutPhase = "resolved"
    /\ user' = Null
    /\ signOutPhase' = "idle"
    /\ routeView' = ProtectedRoute(Null, loading)
    /\ UNCHANGED <<fbUser, notifyPending, loading, signInPhase, loginBusy,
                   loginToast, currentUserId>>

-----------------------------------------------------------------------------
(* The page: which component is mounted, and what a render does to it *)

Periods == {<<2024, 1>>, <<2024, 2>>}

\* What /api/months may list, latest period first
MonthLists == {<<>>, <<<<2024, 1>>>>, <<<<2024, 2>>, <<2024, 1>>>>}

Range(seq) == {seq[i] : i \in 1..Len(seq)}

\* Index.tsx:273-326: the triggers of the page's Tabs
TabNames == {"upload", "dashboard", "advisor", "insights"}

\* Index.tsx:226, 330-450: the Tabs exist while the backend is connected,
\* and only the content of the selected tab is mounted
UploadShown(conn, tab)   == conn /\ tab = "upload"
DashboardShown(conn, tab) == conn /\ tab = "dashboard"
ChatShown(conn, tab)     == conn /\ tab = "advisor"
\* Index.tsx:430
InsightsShown(conn, tab, months) == conn /\ tab = "insights" /\ months # <<>>

\* ---- InsightsContainer

\* insights === null, and the insights of a period
NoInsights == [present |-> FALSE, period |-> <<0, 0>>]
InsightsOf(period) == [present |-> TRUE, period |-> period]
\* error === null
NoError == <<>>

\* InsightsContainer.tsx:20-25 and the first run of the effect (53-76)
IcMount(period) ==
    /\ icSelected' = period
    /\ icInsights' = NoInsights
    /\ icLoading' = TRUE
    /\ icError' = NoError
    /\ icFetches' = {[id |-> 1, period |-> period]}

\* No instance is mounted; the pending calls of the old one change nothing
IcUnmounted ==
    /\ icSelected' = <<0, 0>>
    /\ icInsights' = NoInsights
    /\ icLoading' = FALSE
    /\ icError' = NoError
    /\ icFetches' = {}

\* A render of Index with these values.  A mounted InsightsContainer gets
\* new props, but its state and the dependencies of its effect are
\* selectedYear/selectedMonth, which only useState's initial value takes
\* from the props (InsightsContainer.tsx:24-25, 76).
IcAfterRender(conn, tab, months, period) ==
    IF InsightsShown(conn, tab, months)
    THEN IF InsightsShown(isBackendConnected, activeTab, availableMonths)
         THEN UNCHANGED insightsVars
         ELSE IcMount(period)
    ELSE IcUnmounted

\* ---- Dashboard

\* financialData === null, and the data of a period
NoData == [present |-> FALSE, period |-> <<0, 0>>]
DataOf(period) == [present |-> TRUE, period |-> period]

FreeId(used) == CHOOSE i \in 1..(Cardinality(used) + 1) : i \notin used

\* loadFinancialData up to its await (Dashboard.tsx:40-46)
DbStartLoad(data, loads, period) ==
    /\ Cardinality(loads) < MaxLoads
    /\ dbData' = data
    /\ dbLoading' = TRUE
    /\ dbLoads' = loads \cup {[id |-> FreeId({l.id : l \in loads}),
                              period |-> period]}

DbUnmounted ==
    /\ dbData' = NoData
    /\ dbLoading' = FALSE
    /\ dbLoads' = {}

\* A render of Index with these values: Dashboard's effect (Dashboard.tsx:
\* 30-38) runs on mount and when selectedYear/selectedMonth changed
DbAfterRender(conn, tab, period) ==
    IF DashboardShown(conn, tab)
    THEN IF ~DashboardShown(isBackendConnected, activeTab)
         THEN IF user # Null /\ ~loading
              THEN DbStartLoad(NoData, {}, period)
              ELSE DbUnmounted
         ELSE IF period # selectedPeriod /\ user # Null /\ ~loading
              THEN DbStartLoad(dbData, dbLoads, period)
              ELSE IF period # selectedPeriod /\ user = Null /\ ~loading
              THEN dbData' = NoData /\ UNCHANGED <<dbLoading, dbLoads>>
              ELSE UNCHANGED dashVars
    ELSE DbUnmounted

\* AuthProvider's user or loading changed: the same effect runs in a mounted
\* Dashboard, and clears the data once nobody is signed in
DbAfterAuth(u, l) ==
    IF DashboardShown(isBackendConnected, activeTab)
       /\ (u # user \/ l # loading)
    THEN IF ~l /\ u # Null
         THEN DbStartLoad(dbData, dbLoads, selectedPeriod)
         ELSE IF ~l
         THEN dbData' = NoData /\ UNCHANGED <<dbLoading, dbLoads>>
         ELSE UNCHANGED dashVars
    ELSE UNCHANGED dashVars

\* The steps of the auth provider, each with what it makes Dashboard do
AuthNext ==
    /\ \/ AuthStateChanged
       \/ HandleGoogleSignIn
       \/ \E u \in Users : PopupSucceeds(u)
       \/ PopupFails
       \/ SignInReturns
       \/ SignOutCalled
       \/ SignOutResolves
       \/ SignOutFails
       \/ SignOutReturns
    /\ DbAfterAuth(user', loading')
    /\ UNCHANGED <<apiVars, normVars, standaloneVars, indexVars, uploadVars, insightsVars,
                   chatVars>>

\* ---- ChatInterface

\* ChatInterface.tsx:307: the template string over the year and the month
SessionId(period) ==
    "demo_user_" \o ToString(period[1]) \o "_" \o ToString(period[2])

\* The record of who holds which session id
Holding(u, period, id) ==
    IF u = Null THEN {} ELSE {[user |-> u, period |-> period, id |-> id]}

\* ChatInterface.tsx:277-325: the initial state, the mount effect starting
\* loadAvailableMonths, and the session effect's first run
ChMount ==
    /\ chSelected' = <<2024, 1>>
    /\ chSessionId' = SessionId(<<2024, 1>>)
    /\ chMonths' = <<>>
    /\ chLoadingMonths' = TRUE
    /\ chMonthsPending' = TRUE
    /\ chHeld' = chHeld \cup Holding(user, <<2024, 1>>, SessionId(<<2024, 1>>))
    /\ chMessages' = <<>>
    /\ chHistoryLength' = 0
    /\ chTyping' = FALSE
    /\ chConnection' = "checking"
    /\ chChecks' = 1
    /\ chSend' = <<>>
    /\ chClears' = <<>>
    /\ UNCHANGED <<chSends, chToast, chExchanged>>

\* No instance is mounted; the pending calls of the old one change nothing
\* that is shown
ChUnmounted ==
    /\ chSelected' = <<0, 0>>
    /\ chSessionId' = ""
    /\ chMonths' = <<>>
    /\ chLoadingMonths' = FALSE
    /\ chMonthsPending' = FALSE
    /\ chMessages' = <<>>
    /\ chHistoryLength' = 0
    /\ chTyping' = FALSE
    /\ chConnection' = "checking"
    /\ chChecks' = 0
    /\ chSend' = <<>>
    /\ chClears' = <<>>
    /\ UNCHANGED <<chHeld, chSends, chToast, chExchanged>>

\* The session effect (ChatInterface.tsx:305-325) for the period selected:
\* a session id that differs from the one held clears the chat
ChSessionEffect(period) ==
    /\ chSessionId' = SessionId(period)
    /\ chHeld' = chHeld \cup Holding(user, period, SessionId(period))
    /\ IF chSessionId # "" /\ SessionId(period) # chSessionId
       THEN /\ chMessages' = <<>>
            /\ chHistoryLength' = 0
            /\ chToast' = "Period Changed"
       ELSE UNCHANGED <<chMessages, chHistoryLength, chToast>>

ChAfterRender(conn, tab) ==
    IF ChatShown(conn, tab)
    THEN IF ChatShown(isBackendConnected, activeTab)
         THEN UNCHANGED chatVars
         ELSE ChMount
    ELSE ChUnmounted

\* ---- Index

\* Index.handleUploadSuccess (Index.tsx:72-79) for a result of this period:
\* loadAvailableMonths starts and the period becomes the selected one
HandleUploadSuccess(period) ==
    /\ monthsPending' = monthsPending + 1
    /\ selectedPeriod' = period
    /\ UNCHANGED <<isBackendConnected, healthPending, activeTab,
                   availableMonths>>
    /\ IcAfterRender(isBackendConnected, activeTab, availableMonths, period)
    /\ DbAfterRender(isBackendConnected, activeTab, period)
    /\ UNCHANGED chatVars

-----------------------------------------------------------------------------
(* FileUpload *)

NoFile == [ext |-> "", type |-> "", sizeMB |-> 0]

\* The files a user may pick: a name's extension as typed, the MIME type the
\* browser reports, and the size.
Files ==
    { [ext |-> ".csv",  type |-> "text/csv", sizeMB |-> 12],
      [ext |-> ".XLSX", type |-> "", sizeMB |-> 1],
      [ext |-> ".pdf",  type |-> "application/vnd.ms-excel", sizeMB |-> 1],
      [ext |-> ".txt",  type |-> "text/plain", sizeMB |-> 1] }

\* FileUpload.tsx:57-69
ValidTypes == {"text/csv", "application/vnd.ms-excel",
               "application/vnd.openxmlformats-officedocument.spreadsheetml.sheet"}
ValidExtensions == {".csv", ".xlsx", ".xls"}
IsValidFile(f) ==
    \/ f.type \in ValidTypes
    \/ \E ext \in ValidExtensions : Lower(f.ext) = ext

\* progress is kept in halves of a percent, so that four draws of
\* Math.random() * 8 can add up to 30
Pct(n) == 2 * n

\* Math.random() * 8, * 3 and * 2, in halves of a percent: values of [0, 16),
\* [0, 6) and [0, 4)
Band1Steps == {0, 15}
Band2Steps == {0, 5}
Band3Steps == {0, 3}

IntervalMs   == 500
ResetDelayMs == 3000
\* the reset delay in ticks of the progress interval
ResetTicks == ResetDelayMs \div IntervalMs

NoToasts == [processing |-> FALSE, saving |-> FALSE]

NoResult == [kind |-> "none", isError |-> FALSE, name |-> "", message |-> <<>>]

\* FileUpload.tsx:163: the catch block's test for a timeout
IsTimeoutMessage_any(msg) == TRUE

IsTimeoutMessage(msg) ==
    \/ Includes(ToLowerCase(msg), <<"timeout">>)
    \/ Includes(ToLowerCase(msg), <<"longer", "than", "expected">>)

\* The ways the upload's fetch ends that the component tells apart
UploadOutcomes ==
    { o \in FetchOutcomes :
        \/ o.t = "reject"
        \/ /\ o.status \in {200, 500}
           /\ o.body.json \in {"invalid", "null", "object"}
           /\ o.body.message = Undefined
           /\ o.body.detail \in {Undefined, JsStr(<<"Gateway", "Timeout">>)} }

\* uploadFile(file, year, month) when fetch ends as `o`
UploadOutcome(o) ==
    IF o.t = "response"
    THEN AfterResponse("uploadFile", o.status, o.body)
    ELSE AfterRejection("uploadFile", o.error)

uploadFrame == <<apiVars, normVars, standaloneVars, authVars, insightsVars, dashVars, chatVars>>

\* FileUpload is on the page
FuMounted == UploadShown(isBackendConnected, activeTab)

\* handleFileChange (FileUpload.tsx:45-93); the input is disabled while an
\* upload runs (line 277)
HandleFileChange(f) ==
    /\ FuMounted /\ ~fuUploading
    /\ IF user = Null
       THEN /\ fuToast' = "Authentication Required"
            /\ UNCHANGED fuFile
       ELSE IF IsValidFile(f)
       THEN /\ fuFile' = f
            /\ fuToast' = IF f.sizeMB > 10 THEN "Large File Detected"
                          ELSE "File Selected"
       ELSE /\ fuToast' = "Invalid File Type"
            /\ UNCHANGED fuFile
    /\ UNCHANGED <<fuPeriod, fuUploading, fuProgress, fuPhase, fuToastShown,
                   fuInterval, fuIntervalDue, fuResetTimers, fuUploads,
                   fuSuccessCalls, fuLastResult, fuStaleCalls, indexVars,
                   uploadFrame>>

\* The year and month selects (FileUpload.tsx:290, 297), disabled while an
\* upload runs
SelectUploadPeriod(p) ==
    /\ FuMounted /\ ~fuUploading
    /\ fuPeriod' = p
    /\ UNCHANGED <<fuFile, fuUploading, fuProgress, fuPhase, fuToastShown,
                   fuInterval, fuIntervalDue, fuResetTimers, fuUploads,
                   fuSuccessCalls, fuLastResult, fuToast, fuStaleCalls,
                   indexVars, uploadFrame>>

\* handleUpload up to its await (FileUpload.tsx:95-140); the button is
\* disabled without a file and while an upload runs (line 319)
HandleUpload ==
    /\ FuMounted
    /\ fuFile # NoFile /\ ~fuUploading
    /\ user # Null
    /\ fuUploads < MaxUploads
    /\ fuUploads' = fuUploads + 1
    /\ fuUploading' = TRUE
    /\ fuProgress' = 0
    /\ fuPhase' = "uploading"
    /\ fuToastShown' = NoToasts
    /\ fuToast' = "Upload Started"
    /\ fuInterval' = TRUE
    /\ fuIntervalDue' = 1
    /\ UNCHANGED <<fuFile, fuPeriod, fuResetTimers, fuSuccessCalls,
                   fuLastResult, fuStaleCalls, indexVars, uploadFrame>>

\* 500 ms pass; a timer that is due fires before more time passes
AdvanceTime ==
    /\ 0 \notin fuResetTimers
    /\ fuInterval => fuIntervalDue > 0
    /\ fuResetTimers' = {t - 1 : t \in fuResetTimers}
    /\ fuIntervalDue' = IF fuInterval THEN fuIntervalDue - 1 ELSE fuIntervalDue
    /\ UNCHANGED <<fuFile, fuPeriod, fuUploading, fuProgress, fuPhase,
                   fuToastShown, fuInterval, fuUploads, fuSuccessCalls,
                   fuLastResult, fuToast, fuStaleCalls, indexVars,
                   uploadFrame>>

\* The callback of the progress interval (FileUpload.tsx:112-136).  A reset
\* timer due at the same instant was set earlier and runs first.
ProgressTick ==
    /\ fuInterval /\ fuIntervalDue = 0
    /\ 0 \notin fuResetTimers
    /\ fuIntervalDue' = 1
    /\ IF fuProgress < Pct(30)
       THEN /\ \E d \in Band1Steps : fuProgress' = fuProgress + d
            /\ UNCHANGED <<fuPhase, fuToastShown, fuToast>>
       ELSE IF fuProgress < Pct(80)
       THEN /\ IF ~fuToastShown.processing
               THEN /\ fuPhase' = "processing"
                    /\ fuToastShown' = [fuToastShown EXCEPT !.processing = TRUE]
                    /\ fuToast' = "Processing Data"
               ELSE UNCHANGED <<fuPhase, fuToastShown, fuToast>>
            /\ \E d \in Band2Steps : fuProgress' = fuProgress + d
       ELSE IF fuProgress < Pct(95)
       THEN /\ IF ~fuToastShown.saving
               THEN /\ fuPhase' = "saving"
                    /\ fuToastShown' = [fuToastShown EXCEPT !.saving = TRUE]
               ELSE UNCHANGED <<fuPhase, fuToastShown>>
            /\ \E d \in Band3Steps : fuProgress' = fuProgress + d
            /\ UNCHANGED fuToast
       ELSE UNCHANGED <<fuProgress, fuPhase, fuToastShown, fuToast>>
    /\ UNCHANGED <<fuFile, fuPeriod, fuUploading, fuInterval, fuResetTimers,
                   fuUploads, fuSuccessCalls, fuLastResult, fuStaleCalls,
                   indexVars, uploadFrame>>

\* What handleUpload's try block runs into after the await: a result of
\* null makes `result.transactions` (FileUpload.tsx:149) throw
UploadThrown(o, result) ==
    IF result.kind = "value" /\ o.body.json = "null"
    THEN NullPropertyError
    ELSE result

\* The rest of handleUpload once uploadFile has settled (FileUpload.tsx:
\* 141-202), with Index.handleUploadSuccess (Index.tsx:72-79) as the
\* onUploadSuccess callback; the server reports the period it was sent
UploadSettles(o) ==
    /\ FuMounted /\ fuUploading
    /\ LET result == UploadOutcome(o)
           thrown == UploadThrown(o, result)
           errorMessage == IF thrown.isError THEN thrown.message ELSE <<>>
       IN  /\ fuLastResult' = result
           /\ fuInterval' = FALSE
           /\ IF thrown.kind = "value"
              THEN /\ fuProgress' = Pct(100)
                   /\ fuPhase' = "complete"
                   /\ fuToast' = "Upload Successful!"
                   /\ fuSuccessCalls' = fuSuccessCalls + 1
                   /\ HandleUploadSuccess(fuPeriod)
                   /\ fuFile' = NoFile
              ELSE IF IsTimeoutMessage(errorMessage)
              THEN /\ fuProgress' = Pct(100)
                   /\ fuPhase' = "complete"
                   /\ fuToast' = "Upload Sent Successfully"
                   /\ fuFile' = NoFile
                   /\ UNCHANGED <<fuSuccessCalls, indexVars, insightsVars,
                                  dashVars, chatVars>>
              ELSE /\ fuProgress' = 0
                   /\ fuPhase' = "uploading"
                   /\ fuToast' = "Upload Failed"
                   /\ UNCHANGED <<fuFile, fuSuccessCalls, indexVars,
                                  insightsVars, dashVars, chatVars>>
    /\ fuUploading' = FALSE
    /\ fuResetTimers' = fuResetTimers \cup {ResetTicks}
    /\ UNCHANGED <<fuPeriod, fuToastShown, fuIntervalDue, fuUploads,
                   fuStaleCalls, apiVars, normVars, standaloneVars, authVars>>

\* The instance leaves the page: its state and timers go, the uploadFile
\* call it awaits stays pending, and the next instance starts from
\* FileUpload.tsx:22-34
FuUnmount ==
    /\ fuStaleCalls' = IF fuUploading THEN Append(fuStaleCalls, fuPeriod)
                       ELSE fuStaleCalls
    /\ fuFile' = NoFile
    /\ fuPeriod' = <<2024, 1>>
    /\ fuUploading' = FALSE
    /\ fuProgress' = 0
    /\ fuPhase' = "uploading"
    /\ fuToastShown' = NoToasts
    /\ fuInterval' = FALSE
    /\ fuIntervalDue' = 0
    /\ fuResetTimers' = {}
    /\ UNCHANGED <<fuUploads, fuSuccessCalls, fuLastResult, fuToast>>

RemoveAt(seq, i) == SubSeq(seq, 1, i - 1) \o SubSeq(seq, i + 1, Len(seq))

\* handleUpload of an instance that is no longer mounted, once uploadFile
\* has settled (FileUpload.tsx:141-202): its state setters do nothing, its
\* toasts and the onUploadSuccess callback still run
StaleUploadSettles(i, o) ==
    /\ i \in 1..Len(fuStaleCalls)
    /\ LET result == UploadOutcome(o)
           thrown == UploadThrown(o, result)
           errorMessage == IF thrown.isError THEN thrown.message ELSE <<>>
       IN  /\ fuLastResult' = result
           /\ IF thrown.kind = "value"
              THEN /\ fuToast' = "Upload Successful!"
                   /\ fuSuccessCalls' = fuSuccessCalls + 1
                   /\ HandleUploadSuccess(fuStaleCalls[i])
              ELSE /\ fuToast' = IF IsTimeoutMessage(errorMessage)
                                 THEN "Upload Sent Successfully"
                                 ELSE "Upload Failed"
                   /\ UNCHANGED <<fuSuccessCalls, indexVars, insightsVars,
                                  dashVars, chatVars>>
    /\ fuStaleCalls' = RemoveAt(fuStaleCalls, i)
    /\ UNCHANGED <<fuFile, fuPeriod, fuUploading, fuProgress, fuPhase,
                   fuToastShown, fuInterval, fuIntervalDue, fuResetTimers,
                   fuUploads, apiVars, normVars, standaloneVars, authVars>>

\* The reset timer set by the finally block fires (FileUpload.tsx:198-201)
ResetTimerFires ==
    /\ 0 \in fuResetTimers
    /\ fuResetTimers' = fuResetTimers \ {0}
    /\ fuProgress' = 0
    /\ fuPhase' = "uploading"
    /\ UNCHANGED <<fuFile, fuPeriod, fuUploading, fuToastShown, fuInterval,
                   fuIntervalDue, fuUploads, fuSuccessCalls, fuLastResult,
                   fuToast, fuStaleCalls, indexVars, uploadFrame>>

UploadNext ==
    \/ \E f \in Files : HandleFileChange(f)
    \/ \E p \in Periods : SelectUploadPeriod(p)
    \/ HandleUpload
    \/ AdvanceTime
    \/ ProgressTick
    \/ \E o \in UploadOutcomes : UploadSettles(o)
    \/ ResetTimerFires

-----------------------------------------------------------------------------
(* Index *)

\* How the requests of the view components end
ViewOutcomes ==
    { o \in FetchOutcomes :
        \/ o.t = "reject" /\ o.error = NetworkError
        \/ /\ o.t = "response"
           /\ \/ o.status = 200 /\ o.body.json \in {"null", "object"}
              \/ o.status = 500 /\ o.body.json = "invalid"
           /\ o.body.message = Undefined
           /\ o.body.detail = Undefined }

\* checkBackendConnection once healthCheck has settled (Index.tsx:43-57);
\* when it resolved the Tabs appear, on their default tab (line 273)
HealthCheckSettles(o) ==
    /\ healthPending
    /\ healthPending' = FALSE
    /\ isBackendConnected' = (RequestOutcome(o).kind = "value")
    /\ activeTab' = "upload"
    /\ UNCHANGED <<availableMonths, monthsPending, selectedPeriod, uploadVars,
                   insightsVars, dashVars, chatVars, apiVars, normVars, standaloneVars,
                   authVars>>

\* loadAvailableMonths once getAvailableMonths has settled (Index.tsx:59-70)
\* with `months` in the body
LoadAvailableMonthsSettles(o, months) ==
    /\ monthsPending > 0
    /\ monthsPending' = monthsPending - 1
    /\ IF RequestOutcome(o).kind = "value" /\ o.body.json # "null"
       THEN LET list == IF o.body.json = "object" THEN months ELSE <<>>
                period == IF list # <<>> THEN list[1] ELSE selectedPeriod
            IN  /\ availableMonths' = list
                /\ selectedPeriod' = period
                /\ IcAfterRender(isBackendConnected, activeTab, list, period)
                /\ DbAfterRender(isBackendConnected, activeTab, period)
       ELSE UNCHANGED <<availableMonths, selectedPeriod, insightsVars,
                        dashVars>>
    /\ UNCHANGED <<isBackendConnected, healthPending, activeTab, uploadVars,
                   chatVars, apiVars, normVars, standaloneVars, authVars>>

\* Another tab is selected (Index.tsx:273-452)
SelectTab(t) ==
    /\ isBackendConnected
    /\ t # activeTab
    /\ activeTab' = t
    /\ IF activeTab = "upload" THEN FuUnmount ELSE UNCHANGED uploadVars
    /\ IcAfterRender(isBackendConnected, t, availableMonths, selectedPeriod)
    /\ DbAfterRender(isBackendConnected, t, selectedPeriod)
    /\ ChAfterRender(isBackendConnected, t)
    /\ UNCHANGED <<isBackendConnected, healthPending, availableMonths,
                   monthsPending, selectedPeriod, apiVars, normVars, standaloneVars, authVars>>

-----------------------------------------------------------------------------
(* InsightsContainer *)

IcMounted == InsightsShown(isBackendConnected, activeTab, availableMonths)

\* getInsights(year, month) when fetch ends as `o`
InsightsOutcome(o) ==
    IF o.t = "response"
    THEN AfterResponse("getInsights", o.status, o.body)
    ELSE AfterRejection("getInsights", o.error)

UnknownInsightsError == <<"An", "unknown", "error", "occurred", ".">>

\* handlePeriodChange (InsightsContainer.tsx:47-51) from the component's
\* own selects (106, 121), then the effect (53-76) up to its await; Index
\* passes no onPeriodChange (Index.tsx:431-434)
IcHandlePeriodChange(p) ==
    /\ IcMounted
    /\ p # icSelected
    /\ Cardinality(icFetches) < MaxLoads
    /\ icSelected' = p
    /\ icLoading' = TRUE
    /\ icError' = NoError
    /\ icFetches' = icFetches \cup
                      {[id |-> FreeId({f.id : f \in icFetches}), period |-> p]}
    /\ UNCHANGED <<icInsights, indexVars, uploadVars, dashVars, chatVars,
                   apiVars, normVars, standaloneVars, authVars>>

\* The rest of fetchInsights once getInsights has settled
\* (InsightsContainer.tsx:58-73)
IcFetchSettles(f, o) ==
    /\ IcMounted
    /\ f \in icFetches
    /\ icFetches' = icFetches \ {f}
    /\ LET result == InsightsOutcome(o)
       IN  IF result.kind = "value"
           THEN /\ icInsights' = IF o.body.json = "null" THEN NoInsights
                                 ELSE InsightsOf(f.period)
                /\ UNCHANGED icError
           ELSE /\ icError' = IF result.isError /\ result.message # <<>>
                              THEN result.message
                              ELSE UnknownInsightsError
                /\ UNCHANGED icInsights
    /\ icLoading' = FALSE
    /\ UNCHANGED <<icSelected, indexVars, uploadVars, dashVars, chatVars,
                   apiVars, normVars, standaloneVars, authVars>>

InsightsNext ==
    \/ \E p \in Periods : IcHandlePeriodChange(p)
    \/ \E f \in icFetches, o \in ViewOutcomes : IcFetchSettles(f, o)

-----------------------------------------------------------------------------
(* Dashboard *)

DbMounted == DashboardShown(isBackendConnected, activeTab)

\* handlePeriodChange (Dashboard.tsx:70-73) from the period select, which
\* is rendered for a signed-in user while no load is shown (75-188, 206);
\* Index's setSelectedPeriod is the callback (Index.tsx:406)
DbHandlePeriodChange(p) ==
    /\ DbMounted
    /\ user # Null /\ ~loading /\ ~dbLoading
    /\ p \in Range(availableMonths)
    /\ p # selectedPeriod
    /\ selectedPeriod' = p
    /\ DbAfterRender(isBackendConnected, activeTab, p)
    /\ IcAfterRender(isBackendConnected, activeTab, availableMonths, p)
    /\ UNCHANGED <<isBackendConnected, healthPending, activeTab,
                   availableMonths, monthsPending, uploadVars, chatVars,
                   apiVars, normVars, standaloneVars, authVars>>

\* The rest of loadFinancialData once getFinancialData has settled
\* (Dashboard.tsx:47-67); `exists` is the flag of the body
DbLoadSettles(l, o, exists) ==
    /\ DbMounted
    /\ l \in dbLoads
    /\ dbLoads' = dbLoads \ {l}
    /\ LET result == RequestOutcome(o)
       IN  IF result.kind = "value" /\ o.body.json # "null"
           THEN dbData' = IF o.body.json = "object" /\ exists
                          THEN DataOf(l.period)
                          ELSE NoData
           ELSE UNCHANGED dbData
    /\ dbLoading' = FALSE
    /\ UNCHANGED <<indexVars, uploadVars, insightsVars, chatVars, apiVars,
                   normVars, standaloneVars, authVars>>

DashboardNext ==
    \/ \E p \in Periods : DbHandlePeriodChange(p)
    \/ \E l \in dbLoads, o \in ViewOutcomes, exists \in BOOLEAN :
           DbLoadSettles(l, o, exists)

-----------------------------------------------------------------------------
(* ChatInterface *)

ChMounted == ChatShown(isBackendConnected, activeTab)

\* The rest of loadAvailableMonths once getAvailableMonths has settled
\* (ChatInterface.tsx:330-356) with `months` in the body, and the session
\* effect (305-325) for the period it selects
ChMonthsSettle(o, months) ==
    /\ ChMounted
    /\ chMonthsPending
    /\ chMonthsPending' = FALSE
    /\ chLoadingMonths' = FALSE
    /\ IF RequestOutcome(o).kind = "value" /\ o.body.json = "object"
       THEN LET period == IF months # <<>> THEN months[Len(months)]
                          ELSE chSelected
            IN  /\ chMonths' = months
                /\ chSelected' = period
                /\ ChSessionEffect(period)
       ELSE /\ chToast' = "Data Loading Error"
            /\ UNCHANGED <<chMonths, chSelected, chSessionId, chHeld,
                           chMessages, chHistoryLength>>
    /\ UNCHANGED <<chTyping, chConnection, chChecks, chSend, chClears, chSends,
                   chExchanged, indexVars, uploadVars, insightsVars, dashVars,
                   apiVars, normVars, standaloneVars, authVars>>

\* The period select (ChatInterface.tsx:637-644), shown once the months are
\* loaded, and the session effect (305-325)
ChSelectPeriod(p) ==
    /\ ChMounted
    /\ ~chLoadingMonths
    /\ p \in Range(chMonths)
    /\ p # chSelected
    /\ chSelected' = p
    /\ ChSessionEffect(p)
    /\ UNCHANGED <<chMonths, chLoadingMonths, chMonthsPending, chTyping,
                   chConnection, chChecks, chSend, chClears, chSends,
                   chExchanged, indexVars,
                   uploadVars, insightsVars, dashVars, apiVars, normVars, standaloneVars,
                   authVars>>

ChatNext ==
    \/ \E o \in ViewOutcomes, months \in MonthLists : ChMonthsSettle(o, months)
    \/ \E p \in Periods : ChSelectPeriod(p)

\* A message of the list: the n-th question, asked for `period`, or the
\* reply to it
UserMessage(n, period) ==
    [type |-> "user", n |-> n, period |-> period, error |-> FALSE]
BotMessage(n, period, error) ==
    [type |-> "bot", n |-> n, period |-> period, error |-> error]

\* response.history_length: absent, or the length the service reports
HistoryLengths == {[defined |-> FALSE, n |-> 0], [defined |-> TRUE, n |-> 2]}

chatFrame == <<indexVars, uploadVars, insightsVars, dashVars, apiVars,
               normVars, standaloneVars, authVars>>

HandleSendMessage_unguarded ==
    /\ ChMounted
    /\ ~chTyping
    /\ chSends < MaxSends
    /\ chSends' = chSends + 1
    /\ chMessages' = Append(chMessages, UserMessage(chSends + 1, chSelected))
    /\ chTyping' = TRUE
    /\ chSend' = <<[n |-> chSends + 1, period |-> chSelected]>>
    /\ chExchanged' = [chExchanged EXCEPT ![chSelected] =
                          Append(@, UserMessage(chSends + 1, chSelected))]
    /\ UNCHANGED <<chSelected, chSessionId, chMonths, chLoadingMonths,
                   chMonthsPending, chHeld, chHistoryLength, chConnection,
                   chChecks, chClears, chToast, chatFrame>>

\* handleSendMessage up to its await (ChatInterface.tsx:421-452), for a
\* non-blank input; the input and the button are disabled while isTyping
\* or disconnected (838, 843)
HandleSendMessage ==
    /\ ChMounted
    /\ ~chTyping
    /\ chConnection # "disconnected"
    /\ chSends < MaxSends
    /\ chSends' = chSends + 1
    /\ chMessages' = Append(chMessages, UserMessage(chSends + 1, chSelected))
    /\ chTyping' = TRUE
    /\ chSend' = <<[n |-> chSends + 1, period |-> chSelected]>>
    /\ chExchanged' = [chExchanged EXCEPT ![chSelected] =
                          Append(@, UserMessage(chSends + 1, chSelected))]
    /\ UNCHANGED <<chSelected, chSessionId, chMonths, chLoadingMonths,
                   chMonthsPending, chHeld, chHistoryLength, chConnection,
                   chChecks, chClears, chToast, chatFrame>>

\* sendChatMessage(question, year, month) when fetch ends as `o`: a result
\* of null makes `result.response` (api.ts:330) throw
SendOutcome(o) ==
    LET result == RequestOutcome(o)
    IN  IF result.kind = "value" /\ o.body.json = "null"
        THEN NullPropertyError
        ELSE result

\* The rest of handleSendMessage once sendChatMessage has settled
\* (ChatInterface.tsx:452-511)
ChSendSettles(o, hl) ==
    /\ ChMounted
    /\ chSend # <<>>
    /\ chSend' = <<>>
    /\ LET sent == chSend[1]
           result == SendOutcome(o)
       IN  IF result.kind = "value"
           THEN /\ chMessages' = Append(chMessages,
                                        BotMessage(sent.n, sent.period, FALSE))
                /\ chHistoryLength' = IF o.body.json = "object" /\ hl.defined
                                      THEN hl.n ELSE chHistoryLength
                /\ chConnection' = "connected"
                /\ chExchanged' = [chExchanged EXCEPT ![sent.period] =
                                     Append(@, BotMessage(sent.n, sent.period,
                                                          FALSE))]
                /\ UNCHANGED chToast
           ELSE /\ chMessages' = Append(chMessages,
                                        BotMessage(sent.n, sent.period, TRUE))
                /\ chConnection' = "disconnected"
                /\ chToast' = "Chat Error"
                /\ UNCHANGED <<chHistoryLength, chExchanged>>
    /\ chTyping' = FALSE
    /\ UNCHANGED <<chSelected, chSessionId, chMonths, chLoadingMonths,
                   chMonthsPending, chHeld, chChecks, chClears, chSends,
                   chatFrame>>

\* checkConnection up to its await (ChatInterface.tsx:367-370), from the
\* Retry button, which is shown unless connected (567, 590)
HandleRetry ==
    /\ ChMounted
    /\ chConnection # "connected"
    /\ chChecks < MaxChecks
    /\ chConnection' = "checking"
    /\ chChecks' = chChecks + 1
    /\ UNCHANGED <<chSelected, chSessionId, chMonths, chLoadingMonths,
                   chMonthsPending, chHeld, chMessages, chHistoryLength,
                   chTyping, chSend, chClears, chSends, chToast, chExchanged,
                   chatFrame>>

\* The rest of checkConnection once testConnection (api.ts:420-428), which
\* turns every failure of healthCheck into false, has settled
\* (ChatInterface.tsx:370-383)
ChCheckSettles(o) ==
    /\ ChMounted
    /\ chChecks > 0
    /\ chChecks' = chChecks - 1
    /\ IF RequestOutcome(o).kind = "value"
       THEN /\ chConnection' = "connected"
            /\ UNCHANGED chToast
       ELSE /\ chConnection' = "disconnected"
            /\ chToast' = "Connection Issue"
    /\ UNCHANGED <<chSelected, chSessionId, chMonths, chLoadingMonths,
                   chMonthsPending, chHeld, chMessages, chHistoryLength,
                   chTyping, chSend, chClears, chSends, chExchanged,
                   chatFrame>>

\* clearChat up to its await (ChatInterface.tsx:514-520)
ClearChat ==
    /\ ChMounted
    /\ Len(chClears) < MaxClears
    /\ chClears' = Append(chClears, chSelected)
    /\ UNCHANGED <<chSelected, chSessionId, chMonths, chLoadingMonths,
                   chMonthsPending, chHeld, chMessages, chHistoryLength,
                   chTyping, chConnection, chChecks, chSend, chSends, chToast,
                   chExchanged, chatFrame>>

\* The rest of clearChat once clearChatHistory has settled
\* (ChatInterface.tsx:522-543)
ChClearSettles(i, o) ==
    /\ ChMounted
    /\ i \in 1..Len(chClears)
    /\ chClears' = RemoveAt(chClears, i)
    /\ IF RequestOutcome(o).kind = "value"
       THEN /\ chMessages' = <<>>
            /\ chHistoryLength' = 0
            /\ chToast' = "Chat Cleared"
            /\ chExchanged' = [chExchanged EXCEPT ![chClears[i]] = <<>>]
       ELSE /\ chToast' = "Clear Failed"
            /\ UNCHANGED <<chMessages, chHistoryLength, chExchanged>>
    /\ UNCHANGED <<chSelected, chSessionId, chMonths, chLoadingMonths,
                   chMonthsPending, chHeld, chTyping, chConnection, chChecks,
                   chSend, chSends, chatFrame>>

TalkNext ==
    \/ HandleSendMessage
    \/ \E o \in ViewOutcomes, hl \in HistoryLengths : ChSendSettles(o, hl)
    \/ HandleRetry
    \/ \E o \in ViewOutcomes : ChCheckSettles(o)
    \/ ClearChat
    \/ \E i \in 1..MaxClears, o \in ViewOutcomes : ChClearSettles(i, o)

-----------------------------------------------------------------------------
(* calculateCategoryTotals (src/lib/financialUtils.ts) *)

\* debit_inr and credit_inr as they come out of the JSON of the service: a
\* number, or nothing
Num(k) == [t |-> "number", n |-> k]
NoNumber == [t |-> "undefined", n |-> 0]

\* amount || 0
OrZero(a) == IF a.t = "number" THEN a.n ELSE 0

\* Numbers are floating-point values: a sum is rounded to the nearest value
\* with MantissaBits significant bits, a tie to the one with an even
\* mantissa.  (A double has 53 bits; the amounts are scaled to match.)
MantissaBits == 4
MaxExact == 2 ^ MantissaBits

Abs(x) == IF x < 0 THEN 0 - x ELSE x

\* the spacing of the representable values around x
RECURSIVE Ulp(_)
Ulp(x) == IF Abs(x) < MaxExact THEN 1 ELSE 2 * Ulp(Abs(x) \div 2)

RoundToNearestEven(x) ==
    LET unit == Ulp(x)
        q == Abs(x) \div unit
        r == Abs(x) % unit
        up == (2 * r > unit) \/ (2 * r = unit /\ q % 2 = 1)
        magnitude == (IF up THEN q + 1 ELSE q) * unit
    IN  IF x < 0 THEN 0 - magnitude ELSE magnitude

FAdd_exact(a, b) == a + b

\* a + b on numbers
FAdd(a, b) == RoundToNearestEven(a + b)

Categories == {"Food", "Rent"}

\* The transactions of the month 2024-01 a list may hold
Transactions ==
    [category : Categories,
     debit_inr : {NoNumber, Num(-1), Num(0), Num(2)},
     credit_inr : {Num(0), Num(3)},
     month : {"2024-01"}]

\* All lists of at most n elements of S
RECURSIVE ListsUpTo(_, _)
ListsUpTo(S, n) ==
    IF n = 0 THEN {<<>>}
    ELSE LET shorter == ListsUpTo(S, n - 1)
         IN  shorter \cup {Append(l, x) : l \in shorter, x \in S}

Counts_always(debitAmount, creditAmount) == TRUE

\* financialUtils.ts:28
Counts(debitAmount, creditAmount) == debitAmount > 0 \/ creditAmount > 0

\* financialUtils.ts:22-36: categoryMap after the forEach, as the list of its
\* entries in insertion order
RECURSIVE CategoryMap(_)
CategoryMap(transactions) ==
    IF transactions = <<>> THEN <<>>
    ELSE LET map == CategoryMap(SubSeq(transactions, 1, Len(transactions) - 1))
             transaction == transactions[Len(transactions)]
             debitAmount == OrZero(transaction.debit_inr)
             creditAmount == OrZero(transaction.credit_inr)
         IN  IF ~Counts(debitAmount, creditAmount) THEN map
             ELSE IF \E i \in 1..Len(map) :
                         map[i].category = transaction.category
             THEN [i \in 1..Len(map) |->
                      IF map[i].category = transaction.category
                      THEN [category |-> map[i].category,
                            debit |-> FAdd(map[i].debit, debitAmount),
                            credit |-> FAdd(map[i].credit, creditAmount),
                            count |-> map[i].count + 1]
                      ELSE map[i]]
             ELSE Append(map, [category |-> transaction.category,
                               debit |-> debitAmount,
                               credit |-> creditAmount,
                               count |-> 1])

\* financialUtils.ts:21-45
calculateCategoryTotals(transactions) ==
    LET map == CategoryMap(transactions)
    IN  [i \in 1..Len(map) |->
            [category |-> map[i].category,
             total_spent |-> map[i].debit,
             total_income |-> map[i].credit,
             transactions |-> map[i].count,
             month |-> IF transactions # <<>> THEN transactions[1].month
                       ELSE ""]]

RECURSIVE getTotalIncome(_)
\* financialUtils.ts:107-109
getTotalIncome(transactions) ==
    IF transactions = <<>> THEN 0
    ELSE FAdd(getTotalIncome(SubSeq(transactions, 1, Len(transactions) - 1)),
              OrZero(transactions[Len(transactions)].credit_inr))

getTotalSpent_credit(transactions) == getTotalIncome(transactions)

RECURSIVE getTotalSpent(_)
\* financialUtils.ts:103-105
getTotalSpent(transactions) ==
    IF transactions = <<>> THEN 0
    ELSE FAdd(getTotalSpent(SubSeq(transactions, 1, Len(transactions) - 1)),
              OrZero(transactions[Len(transactions)].debit_inr))

NotCalled == [done |-> FALSE, summaries |-> <<>>, totals |-> <<>>]

\* One call of calculateCategoryTotals
CallCategoryTotals ==
    /\ ~ctResult.done
    /\ ctResult' = [done |-> TRUE,
                    summaries |-> calculateCategoryTotals(ctTransactions),
                    totals |-> <<>>]
    /\ UNCHANGED <<ctTransactions, tableVars, dataUploadVars, budgetVars, apiVars,
                   normVars, authVars, viewVars>>

\* The transactions the three helpers are compared on: amounts that are not
\* negative, small ones and one at the end of the exact range
Payments ==
    [category : Categories,
     debit_inr : {Num(0), Num(1), Num(MaxExact)},
     credit_inr : {NoNumber, Num(1)},
     month : {"2024-01"}]

\* One call of each of calculateCategoryTotals, getTotalSpent and
\* getTotalIncome on the same list
CallAggregationHelpers ==
    /\ ~ctResult.done
    /\ ctResult' = [done |-> TRUE,
                    summaries |-> calculateCategoryTotals(ctTransactions),
                    totals |-> <<getTotalSpent(ctTransactions),
                                 getTotalIncome(ctTransactions)>>]
    /\ UNCHANGED <<ctTransactions, tableVars, dataUploadVars, budgetVars, apiVars,
                   normVars, authVars, viewVars>>

-----------------------------------------------------------------------------
(* TransactionTable (src/components/dashboard/TransactionTable.tsx) *)

\* Strings are sequences of characters here. The value of the Select item
\* 'All Categories' (line 179):
AllCategories == <<"a", "l", "l">>

\* What a row may hold: a date with the debit of that day, a description and
\* a category
RowTemplates ==
    [day : {[date |-> <<"1">>, debit_inr |-> 2],
            [date |-> <<"2">>, debit_inr |-> 1]},
     description : {<<"A", "b">>, <<"b">>},
     category : {<<"a">>, <<"B">>, AllCategories}]

\* The object at position i of the data prop
Row(i, tpl) ==
    [id |-> i, date |-> tpl.day.date, debit_inr |-> tpl.day.debit_inr,
     description |-> tpl.description, category |-> tpl.category]

TableData ==
    {[i \in 1..Len(l) |-> Row(i, l[i])] : l \in ListsUpTo(RowTemplates, MaxRows)}

SearchTerms == {<<>>, <<"a">>, <<"B">>, <<"A", "B">>}
SortFields == {"date", "description", "category", "debit_inr"}

\* The position of a character in the alphabet, whatever its case
Letter(c) ==
    CASE Lower(c) = "1" -> 1
      [] Lower(c) = "2" -> 2
      [] Lower(c) = "a" -> 3
      [] Lower(c) = "b" -> 4
      [] OTHER          -> 5

\* a.localeCompare(b) < 0, = 0, > 0 as -1, 0, 1: the letters decide first,
\* a prefix comes before its extensions, and between strings of the same
\* letters the first difference of case decides, lower case first
RECURSIVE CompareLetters(_, _)
CompareLetters(a, b) ==
    IF a = <<>> /\ b = <<>> THEN 0
    ELSE IF a = <<>> THEN -1
    ELSE IF b = <<>> THEN 1
    ELSE IF Letter(a[1]) < Letter(b[1]) THEN -1
    ELSE IF Letter(a[1]) > Letter(b[1]) THEN 1
    ELSE CompareLetters(Tail(a), Tail(b))
RECURSIVE CompareCase(_, _)
CompareCase(a, b) ==
    IF a = <<>> THEN 0
    ELSE IF a[1] = b[1] THEN CompareCase(Tail(a), Tail(b))
    ELSE IF Lower(a[1]) = a[1] THEN -1 ELSE 1
LocaleCompare(a, b) ==
    IF CompareLetters(a, b) # 0 THEN CompareLetters(a, b)
    ELSE CompareCase(a, b)

\* The comparator of sortTransactions (financialUtils.ts:85-100); debit_inr
\* is the numeric field
SortCompare(a, b, field, direction) ==
    IF field = "debit_inr"
    THEN IF direction = "asc" THEN a.debit_inr - b.debit_inr
         ELSE b.debit_inr - a.debit_inr
    ELSE IF direction = "asc" THEN LocaleCompare(a[field], b[field])
         ELSE LocaleCompare(b[field], a[field])

\* Array.prototype.sort is stable: x goes behind the elements that do not
\* compare greater than it
InsertSorted(sorted, x, field, direction) ==
    LET after == {i \in 1..Len(sorted) :
                     SortCompare(sorted[i], x, field, direction) > 0}
        k == IF after = {} THEN Len(sorted) + 1
             ELSE CHOOSE i \in after : \A j \in after : i <= j
    IN  SubSeq(sorted, 1, k - 1) \o <<x>> \o SubSeq(sorted, k, Len(sorted))

\* sortTransactions (financialUtils.ts:80-101)
RECURSIVE sortTransactions(_, _, _)
sortTransactions(transactions, field, direction) ==
    IF transactions = <<>> THEN <<>>
    ELSE InsertSorted(
             sortTransactions(SubSeq(transactions, 1, Len(transactions) - 1),
                              field, direction),
             transactions[Len(transactions)], field, direction)

MatchesSearch_description(transaction, searchTerm) ==
    Includes(ToLowerCase(transaction.description), ToLowerCase(searchTerm))

\* TransactionTable.tsx:48-51
MatchesSearch(transaction, searchTerm) ==
    \/ Includes(ToLowerCase(transaction.description), ToLowerCase(searchTerm))
    \/ Includes(ToLowerCase(transaction.category), ToLowerCase(searchTerm))

\* processedData (TransactionTable.tsx:43-61); SelectSeq is array.filter
ProcessedData(data, searchTerm, categoryFilter, sortField, sortDirection) ==
    LET InSearch(t) == MatchesSearch(t, searchTerm)
        InCategory(t) == t.category = categoryFilter
        searched == IF searchTerm # <<>> THEN SelectSeq(data, InSearch) ELSE data
        filtered == IF categoryFilter # AllCategories
                    THEN SelectSeq(searched, InCategory) ELSE searched
    IN  sortTransactions(filtered, sortField, sortDirection)
processedData ==
    ProcessedData(ttData, ttSearchTerm, ttCategoryFilter, ttSortField,
                  ttSortDirection)

\* categories (TransactionTable.tsx:37-40), as a set
TableCategories == {ttData[i].category : i \in 1..Len(ttData)}

tableFrame == <<totalsVars, dataUploadVars, budgetVars, apiVars, normVars,
                authVars, viewVars>>

\* The search box (line 166); the table is rendered when data is not empty
\* (118)
SetSearchTerm(term) ==
    /\ ttData # <<>>
    /\ term # ttSearchTerm
    /\ ttSearchTerm' = term
    /\ UNCHANGED <<ttData, ttCategoryFilter, ttSortField, ttSortDirection,
                   tableFrame>>

\* The category Select (lines 174-186)
SetCategoryFilter(c) ==
    /\ ttData # <<>>
    /\ c \in {AllCategories} \cup TableCategories
    /\ c # ttCategoryFilter
    /\ ttCategoryFilter' = c
    /\ UNCHANGED <<ttData, ttSearchTerm, ttSortField, ttSortDirection,
                   tableFrame>>

\* handleSort (lines 68-75)
HandleSort(field) ==
    /\ ttData # <<>>
    /\ IF ttSortField = field
       THEN /\ ttSortDirection' = IF ttSortDirection = "asc" THEN "desc"
                                  ELSE "asc"
            /\ UNCHANGED ttSortField
       ELSE /\ ttSortField' = field
            /\ ttSortDirection' = "desc"
    /\ UNCHANGED <<ttData, ttSearchTerm, ttCategoryFilter, tableFrame>>

TableNext ==
    \/ \E term \in SearchTerms : SetSearchTerm(term)
    \/ \E c \in RowTemplates : SetCategoryFilter(c.category)
    \/ \E field \in SortFields : HandleSort(field)

-----------------------------------------------------------------------------
(* DataUpload (src/components/upload/DataUpload.tsx) *)

validateFile_byType(file) == file.type \in ValidTypes

\* validateFile (DataUpload.tsx:32-46)
validateFile(file) ==
    \/ file.type \in ValidTypes
    \/ \E ext \in ValidExtensions : Lower(file.ext) = ext

\* e.dataTransfer.files and e.target.files: files valid by their name only,
\* valid by their type only, and invalid
DroppedFiles == {f \in Files : f.ext # ".csv"}
FileLists == ListsUpTo(DroppedFiles, MaxDrop) \ {<<>>}

\* newFile (lines 67-73); the progress field, which only the progress
\* interval and the settled upload write, is left out
UploadedFile(id, file) ==
    [id |-> id, ext |-> file.ext, sizeMB |-> file.sizeMB,
     status |-> "uploading"]

NoToast == "none"

\* addFile (lines 48-77), called with the files.length of the render the
\* handler belongs to, on the state left by the calls before it
AddFile(st, file, length) ==
    IF ~validateFile(file)
    THEN [st EXCEPT !.toast = "Invalid File Type"]
    ELSE IF length >= MaxFiles
    THEN [st EXCEPT !.toast = "Maximum Files Reached"]
    ELSE LET id == FreeId({f.id : f \in Range(st.files)} \cup st.pending)
         IN  [st EXCEPT !.files = Append(@, UploadedFile(id, file)),
                        !.pending = @ \cup {id}]

\* list.forEach(addFile)
RECURSIVE AddFiles(_, _, _)
AddFiles(st, list, length) ==
    IF list = <<>> THEN st
    ELSE AddFiles(AddFile(st, list[1], length), Tail(list), length)

AfterAdding(list) ==
    AddFiles([files |-> duFiles, pending |-> duPending, toast |-> NoToast],
             list, Len(duFiles))

dataUploadFrame == <<totalsVars, tableVars, budgetVars, apiVars, normVars,
                     authVars, viewVars>>

\* handleDragOver and handleDragLeave (lines 143-151)
HandleDragOver ==
    /\ ~duDragOver
    /\ duDragOver' = TRUE
    /\ duOffered' = <<>>
    /\ UNCHANGED <<duFiles, duPending, duToast, dataUploadFrame>>
HandleDragLeave ==
    /\ duDragOver
    /\ duDragOver' = FALSE
    /\ duOffered' = <<>>
    /\ UNCHANGED <<duFiles, duPending, duToast, dataUploadFrame>>

\* handleDrop (lines 153-159)
HandleDrop(list) ==
    /\ Cardinality(duPending) + Len(list) <= MaxFiles + MaxDrop
    /\ duDragOver' = FALSE
    /\ LET after == AfterAdding(list)
       IN  /\ duFiles' = after.files
           /\ duPending' = after.pending
           /\ duToast' = IF after.toast = NoToast THEN duToast
                         ELSE after.toast
    /\ duOffered' = list
    /\ UNCHANGED dataUploadFrame

\* handleFileSelect (lines 161-167)
HandleFileSelect(list) ==
    /\ Cardinality(duPending) + Len(list) <= MaxFiles + MaxDrop
    /\ LET after == AfterAdding(list)
       IN  /\ duFiles' = after.files
           /\ duPending' = after.pending
           /\ duToast' = IF after.toast = NoToast THEN duToast
                         ELSE after.toast
    /\ duOffered' = list
    /\ UNCHANGED <<duDragOver, dataUploadFrame>>

\* removeFile (lines 139-141)
RemoveFile(fileId) ==
    /\ \E i \in 1..Len(duFiles) : duFiles[i].id = fileId
    /\ duFiles' = SelectSeq(duFiles, LAMBDA f : f.id # fileId)
    /\ duOffered' = <<>>
    /\ UNCHANGED <<duDragOver, duPending, duToast, dataUploadFrame>>

\* The rest of uploadFile(file, fileId) once apiClient.uploadFile has settled
\* (lines 93-136), for a service that answers with an object or an error;
\* no onUploadSuccess is passed
DuUploadSettles(fileId, o) ==
    /\ fileId \in duPending
    /\ o.body.json # "null"
    /\ duPending' = duPending \ {fileId}
    /\ duOffered' = <<>>
    /\ LET result == UploadOutcome(o)
           status == IF result.kind = "value" THEN "success" ELSE "error"
       IN  /\ duFiles' = [i \in 1..Len(duFiles) |->
                             IF duFiles[i].id = fileId
                             THEN [duFiles[i] EXCEPT !.status = status]
                             ELSE duFiles[i]]
           /\ duToast' = IF result.kind = "value" THEN "Upload Successful"
                         ELSE "Upload Failed"
    /\ UNCHANGED <<duDragOver, dataUploadFrame>>

\* DataUpload with a user who lets the uploads of one drop or selection
\* settle before the next
DataUploadNext ==
    \/ HandleDragOver
    \/ HandleDragLeave
    \/ duPending = {} /\ \E list \in FileLists : HandleDrop(list)
    \/ duPending = {} /\ \E list \in FileLists : HandleFileSelect(list)
    \/ \E id \in 1..(2 * (MaxFiles + MaxDrop)) : RemoveFile(id)
    \/ \E id \in 1..(2 * (MaxFiles + MaxDrop)), o \in ViewOutcomes :
           DuUploadSettles(id, o)

-----------------------------------------------------------------------------
(* BudgetPlanning *)

\* The ids of the recommendations prop
Recommendations == {"rec1", "rec2", "rec3"}
NoRec == ""
NoToggle == [rec |-> NoRec, selected |-> {}]

\* prev.includes(id)
Has(list, id) == \E i \in 1..Len(list) : list[i] = id
AsSet(list) == {list[i] : i \in 1..Len(list)}

\* The updater of handleApply (BudgetPlanning.tsx:206-210)
ToggleApplied(prev, id) ==
    IF Has(prev, id)
    THEN SelectSeq(prev, LAMBDA x : x # id)
    ELSE Append(prev, id)

\* components/ui/dialog, the Dialog of the component library: a click on a
\* DialogTrigger runs the onClick of the element it wraps and then asks its
\* Dialog for the opposite of the open value it was rendered with; a Dialog
\* that is given `open` passes the request to onOpenChange.  (The 'Learn
\* More' dialogs, lines 345-348, open in no other way.)
TriggerRequest(open) == ~open

\* While a dialog is open nothing behind it takes clicks
DialogsClosed == ~bpPlanOpen /\ bpDetailsOpen = NoRec

PlanState == [applied |-> bpApplied, open |-> bpPlanOpen, toast |-> bpToast]

\* handleCreatePlan (BudgetPlanning.tsx:217-226)
handleCreatePlan(st) ==
    IF Len(st.applied) = 0
    THEN [st EXCEPT !.toast = "No recommendations have been selected."]
    ELSE [st EXCEPT !.open = TRUE]

\* handlePlanDialogChange (BudgetPlanning.tsx:229-236)
handlePlanDialogChange(st, isOpen) ==
    IF ~isOpen
    THEN [st EXCEPT !.open = isOpen, !.applied = <<>>,
                    !.toast = "Your temporary budget plan has been cleared."]
    ELSE [st EXCEPT !.open = isOpen]

budgetFrame == <<totalsVars, tableVars, dataUploadVars, apiVars, normVars,
                 authVars, viewVars>>

SetPlanState(st) ==
    /\ bpApplied' = st.applied
    /\ bpPlanOpen' = st.open
    /\ bpToast' = st.toast

\* 'Select for Plan' on a card: handleApply (BudgetPlanning.tsx:204-215, 341)
HandleApply(id) ==
    /\ DialogsClosed
    /\ bpApplied' = ToggleApplied(bpApplied, id)
    /\ bpToast' = IF ~Has(bpApplied, id) THEN "Added to your plan."
                  ELSE bpToast
    /\ bpBefore' = [rec |-> id, selected |-> AsSet(bpApplied)]
    /\ UNCHANGED <<bpSelectedRec, bpPlanOpen, bpDetailsOpen, budgetFrame>>

\* A click on 'Create Budget Plan' (BudgetPlanning.tsx:384-388): the
\* button's handleCreatePlan, then the request of the DialogTrigger around
\* it, which the Dialog (line 373) hands to handlePlanDialogChange
ClickCreatePlan ==
    /\ DialogsClosed
    /\ SetPlanState(handlePlanDialogChange(handleCreatePlan(PlanState),
                                           TriggerRequest(bpPlanOpen)))
    /\ bpBefore' = NoToggle
    /\ UNCHANGED <<bpSelectedRec, bpDetailsOpen, budgetFrame>>

\* The plan dialog is dismissed (Escape, a click outside, its close button):
\* the Dialog calls onOpenChange(false) (BudgetPlanning.tsx:373)
ClosePlanDialog ==
    /\ bpPlanOpen
    /\ SetPlanState(handlePlanDialogChange(PlanState, FALSE))
    /\ bpBefore' = NoToggle
    /\ UNCHANGED <<bpSelectedRec, bpDetailsOpen, budgetFrame>>

\* 'Learn More' on a card (BudgetPlanning.tsx:345-348): setSelectedRec,
\* then the DialogTrigger opens the card's own dialog
ClickLearnMore(id) ==
    /\ DialogsClosed
    /\ bpSelectedRec' = id
    /\ bpDetailsOpen' = IF TriggerRequest(FALSE) THEN id ELSE NoRec
    /\ bpBefore' = NoToggle
    /\ UNCHANGED <<bpApplied, bpPlanOpen, bpToast, budgetFrame>>

\* The 'Learn More' dialog is dismissed
CloseDetails ==
    /\ bpDetailsOpen # NoRec
    /\ bpDetailsOpen' = NoRec
    /\ bpBefore' = NoToggle
    /\ UNCHANGED <<bpApplied, bpSelectedRec, bpPlanOpen, bpToast,
                   budgetFrame>>

BudgetNext ==
    \/ \E id \in Recommendations : HandleApply(id)
    \/ ClickCreatePlan
    \/ ClosePlanDialog
    \/ \E id \in Recommendations : ClickLearnMore(id)
    \/ CloseDetails

-----------------------------------------------------------------------------
(* Specifications *)

InitApi ==
    /\ apiTimeout \in {30000, DefaultApiTimeout}
    /\ inflight = {}
    /\ started = 0
    /\ fetches = 0
    /\ lastSent = NoSend
    /\ lastSettled = NoSettled

InitNormIdle ==
    /\ normIn = [t |-> "reject", status |-> 0,
                 body |-> [json |-> "invalid", detail |-> Undefined,
                           message |-> Undefined],
                 error |-> AbortError]
    /\ normOut = Returned

\* The page has loaded: the provider may hold a persisted session and has
\* not called the listener yet
InitAuth ==
    /\ fbUser \in Users \cup {Null}
    /\ notifyPending = TRUE
    /\ user = Null
    /\ loading = TRUE
    /\ currentUserId = Null
    /\ signInPhase = "idle"
    /\ signOutPhase = "idle"
    /\ loginBusy = FALSE
    /\ loginToast = "none"
    /\ routeView = ProtectedRoute(Null, TRUE)

\* Index.tsx:29-41: the initial state and the mount effect, which starts
\* checkBackendConnection and loadAvailableMonths
InitIndex ==
    /\ isBackendConnected = FALSE
    /\ healthPending = TRUE
    /\ activeTab = "upload"
    /\ availableMonths = <<>>
    /\ monthsPending = 1
    /\ selectedPeriod = <<2024, 1>>

\* FileUpload.tsx:22-34; the period defaults to the current month
InitUpload ==
    /\ fuFile = NoFile
    /\ fuPeriod = <<2024, 1>>
    /\ fuUploading = FALSE
    /\ fuProgress = 0
    /\ fuPhase = "uploading"
    /\ fuToastShown = NoToasts
    /\ fuInterval = FALSE
    /\ fuIntervalDue = 0
    /\ fuResetTimers = {}
    /\ fuUploads = 0
    /\ fuSuccessCalls = 0
    /\ fuLastResult = NoResult
    /\ fuToast = "none"
    /\ fuStaleCalls = <<>>

\* Nothing but FileUpload's tab is selected, and the Tabs are not there yet
InitInsights ==
    /\ icSelected = <<0, 0>>
    /\ icInsights = NoInsights
    /\ icLoading = FALSE
    /\ icError = NoError
    /\ icFetches = {}

InitDashboard ==
    /\ dbData = NoData
    /\ dbLoading = FALSE
    /\ dbLoads = {}

InitChat ==
    /\ chSelected = <<0, 0>>
    /\ chSessionId = ""
    /\ chMonths = <<>>
    /\ chLoadingMonths = FALSE
    /\ chMonthsPending = FALSE
    /\ chHeld = {}
    /\ chMessages = <<>>
    /\ chHistoryLength = 0
    /\ chTyping = FALSE
    /\ chConnection = "checking"
    /\ chChecks = 0
    /\ chSend = <<>>
    /\ chClears = <<>>
    /\ chSends = 0
    /\ chToast = "none"
    /\ chExchanged = [p \in Periods |-> <<>>]

InitViews ==
    InitIndex /\ InitUpload /\ InitInsights /\ InitDashboard /\ InitChat

\* No call of calculateCategoryTotals is under way
InitTotalsIdle ==
    /\ ctTransactions = <<>>
    /\ ctResult = [done |-> TRUE, summaries |-> <<>>, totals |-> <<>>]

\* TransactionTable.tsx:30-34, with no data
InitTableIdle ==
    /\ ttData = <<>>
    /\ ttSearchTerm = <<>>
    /\ ttCategoryFilter = AllCategories
    /\ ttSortField = "date"
    /\ ttSortDirection = "desc"

\* DataUpload.tsx:28-29
InitDataUpload ==
    /\ duFiles = <<>>
    /\ duDragOver = FALSE
    /\ duPending = {}
    /\ duToast = "none"
    /\ duOffered = <<>>

\* BudgetPlanning.tsx:196-199
InitBudget ==
    /\ bpApplied = <<>>
    /\ bpSelectedRec = NoRec
    /\ bpPlanOpen = FALSE
    /\ bpDetailsOpen = NoRec
    /\ bpToast = "none"
    /\ bpBefore = NoToggle

InitStandalone ==
    InitTotalsIdle /\ InitTableIdle /\ InitDataUpload /\ InitBudget

Init == InitApi /\ InitNormIdle /\ InitAuth /\ InitViews /\ InitStandalone

\* The auth state once the listener has reported user u and nothing is
\* pending
SignedIn(u) ==
    /\ fbUser = u
    /\ notifyPending = FALSE
    /\ user = u
    /\ loading = FALSE
    /\ currentUserId = u
    /\ signInPhase = "idle"
    /\ signOutPhase = "idle"
    /\ loginBusy = FALSE
    /\ loginToast = "none"
    /\ routeView = ProtectedRoute(u, FALSE)

\* The auth provider together with the calls the client sends.  What the
\* server answers changes neither the headers sent nor the auth state, so
\* the responses are left to SpecApi.
SendNext == (\E op \in Ops : Call(op)) /\ UNCHANGED <<normVars, standaloneVars, authVars, viewVars>>
Next == AuthNext \/ SendNext
Spec == Init /\ [][Next]_vars

\* The client alone
SpecApi == Init /\ [][ApiNext]_vars

\* The auth provider and the route guard alone
SpecAuth == Init /\ [][AuthNext]_vars

\* request's error normalisation over every fetch outcome
InitNorm ==
    /\ InitApi /\ InitAuth /\ InitViews /\ InitStandalone
    /\ normIn \in FetchOutcomes
    /\ normOut = Pending
SpecNorm == InitNorm /\ [][NormNext]_vars

\* FileUpload, shown to a signed-in user on the upload tab
InitPageSignedIn ==
    /\ InitApi /\ apiTimeout = DefaultApiTimeout
    /\ InitNormIdle
    /\ SignedIn("alice")
    /\ InitViews
InitSignedIn == InitPageSignedIn /\ InitStandalone

\* Calls of calculateCategoryTotals on every list of transactions
InitTotals ==
    /\ InitPageSignedIn /\ InitTableIdle /\ InitDataUpload /\ InitBudget
    /\ ctTransactions \in ListsUpTo(Transactions, MaxTransactions)
    /\ ctResult = NotCalled
TotalsNext == CallCategoryTotals
SpecTotals == InitTotals /\ [][TotalsNext]_vars

\* Calls of the three aggregation helpers on every list of payments
InitHelpers ==
    /\ InitPageSignedIn /\ InitTableIdle /\ InitDataUpload /\ InitBudget
    /\ ctTransactions \in ListsUpTo(Payments, MaxTransactions)
    /\ ctResult = NotCalled
HelpersNext == CallAggregationHelpers
SpecHelpers == InitHelpers /\ [][HelpersNext]_vars

\* TransactionTable rendered with every data set
InitTable ==
    /\ InitPageSignedIn /\ InitTotalsIdle /\ InitDataUpload /\ InitBudget
    /\ ttData \in TableData
    /\ ttSearchTerm = <<>>
    /\ ttCategoryFilter = AllCategories
    /\ ttSortField = "date"
    /\ ttSortDirection = "desc"
SpecTable == InitTable /\ [][TableNext]_vars

\* BudgetPlanning, given a list of recommendations
SpecBudget == InitSignedIn /\ [][BudgetNext]_vars

\* DataUpload, rendered on its own
SpecDataUpload == InitSignedIn /\ [][DataUploadNext]_vars

\* The two upload components taking files, for a user who is signed in or
\* signed out: DataUpload, which the page does not render, until the page's
\* health check has succeeded, and FileUpload on the page from then on
InitValidation ==
    /\ InitApi /\ apiTimeout = DefaultApiTimeout
    /\ InitNormIdle
    /\ SignedIn("alice") \/ SignedIn(Null)
    /\ InitViews
    /\ InitStandalone
ValidationNext ==
    \/ \E o \in ViewOutcomes : HealthCheckSettles(o)
    \/ \E f \in Files : HandleFileChange(f)
    \/ ~FuMounted /\ \E list \in FileLists : HandleDrop(list)
    \/ ~FuMounted /\ \E list \in FileLists : HandleFileSelect(list)
SpecValidation == InitValidation /\ [][ValidationNext]_vars

\* The calls of Index's mount effect settle
PageLoadNext ==
    \/ \E o \in ViewOutcomes : HealthCheckSettles(o)
    \/ \E o \in ViewOutcomes, months \in MonthLists :
           LoadAvailableMonthsSettles(o, months)

TabNext == \E t \in TabNames : SelectTab(t)

StaleUploadNext ==
    \E i \in 1..MaxUploads, o \in UploadOutcomes : StaleUploadSettles(i, o)

\* FileUpload while its tab stays selected
UploadPageNext ==
    \/ \E o \in ViewOutcomes : HealthCheckSettles(o)
    \/ UploadNext
SpecUpload == InitSignedIn /\ [][UploadPageNext]_vars

\* FileUpload while its request is sure to settle
SpecUploadLive ==
    SpecUpload /\ WF_vars(\E o \in UploadOutcomes : UploadSettles(o))

\* FileUpload on the page with its tab left and selected again; no time
\* passes for FileUpload's timers
UploadTabsNext ==
    \/ \E o \in ViewOutcomes : HealthCheckSettles(o)
    \/ TabNext
    \/ \E f \in Files : HandleFileChange(f)
    \/ HandleUpload
    \/ \E o \in UploadOutcomes : UploadSettles(o)
    \/ StaleUploadNext
SpecUploadTabs == InitSignedIn /\ [][UploadTabsNext]_vars

\* InsightsContainer on the page, with uploads that may still be pending
\* when their tab is left; no time passes for FileUpload's timers
InsightsPageNext ==
    \/ PageLoadNext
    \/ TabNext
    \/ \E f \in Files : HandleFileChange(f)
    \/ \E p \in Periods : SelectUploadPeriod(p)
    \/ HandleUpload
    \/ StaleUploadNext
    \/ InsightsNext
SpecInsights == InitSignedIn /\ [][InsightsPageNext]_vars

\* Dashboard on the page
DashboardPageNext == PageLoadNext \/ TabNext \/ DashboardNext
SpecDashboard == InitSignedIn /\ [][DashboardPageNext]_vars

\* ChatInterface on the page, with users signing out and in
ChatPageNext ==
    \/ AuthNext
    \/ \E o \in ViewOutcomes : HealthCheckSettles(o)
    \/ TabNext
    \/ ChatNext
SpecChat == InitSignedIn /\ [][ChatPageNext]_vars

\* The advisor's conversation: ChatInterface on the page for one user
AdvisorNext ==
    \/ \E o \in ViewOutcomes : HealthCheckSettles(o)
    \/ TabNext
    \/ ChatNext
    \/ TalkNext
SpecAdvisor == InitSignedIn /\ [][AdvisorNext]_vars

\* Dashboard on the page while users sign out and in
DashAuthNext ==
    \/ AuthNext
    \/ DashboardPageNext
SpecDashAuth == InitSignedIn /\ [][DashAuthNext]_vars

\* The advisor's connection status: messages, their replies, and connection
\* checks, for the period the chat opens with
ConnectionNext ==
    \/ \E o \in ViewOutcomes : HealthCheckSettles(o)
    \/ TabNext
    \/ HandleSendMessage
    \/ \E o \in ViewOutcomes, hl \in HistoryLengths : ChSendSettles(o, hl)
    \/ HandleRetry
    \/ \E o \in ViewOutcomes : ChCheckSettles(o)
SpecConnection == InitSignedIn /\ [][ConnectionNext]_vars

-----------------------------------------------------------------------------
(* Claims about the HTTP client *)

\* C1 (as claimed): every call that is still pending has an armed abort
\* timer, and the timer of an upload is set to at least 180000 ms.
C1_EveryPendingCallHasAbortTimer ==
    \A c \in inflight :
        /\ c.timerArmed
        /\ c.op = "uploadFile" => c.timerMs >= 180000

\* C2 (as claimed): a request sent after the auth listener reported a user
\* carries that user's id in a header, and a request sent after the listener
\* reported a sign-out carries no user's id.
C2_RequestsCarryUserId ==
    lastSent.op # "" =>
        IF lastSent.listenerUser # Null
        THEN \E h \in lastSent.headers : h[2] = lastSent.listenerUser
        ELSE \A h \in lastSent.headers : h[2] \notin Users

\* C3 (as claimed): a failure reported to the caller was preceded by a
\* second attempt.
C3_FailureIsRetried ==
    lastSettled.kind = "throw" => lastSettled.attempts >= 2

\* C3 (amended): the client issues exactly one fetch per operation; a failure
\* or timeout is reported to the caller after that single attempt.
C3_SingleAttempt ==
    /\ fetches = started
    /\ \A c \in inflight : c.attempts = 1
    /\ lastSettled.op # "" => lastSettled.attempts = 1

C3_Witness ==
    /\ lastSettled.op = "request"
    /\ lastSettled.kind = "throw"
    /\ fetches = started

NormDone == normOut # Pending
IsResponse == normIn.t = "response"

\* The first of detail and message that is there at all
FirstPresent(body, fallback) ==
    IF body.json # "object" THEN fallback
    ELSE IF body.detail # Undefined THEN ToStr(body.detail)
    ELSE IF body.message # Undefined THEN ToStr(body.message)
    ELSE fallback

\* C4 (as claimed): every failure is an Error; a non-OK response gives the
\* body's detail if present, otherwise its message, otherwise
\* HTTP <status>: <statusText>; an abort gives 'Request timeout'; a thrown
\* non-Error gives 'Unknown error occurred'; an OK response gives no Error.
C4_ErrorNormalization ==
    NormDone =>
        /\ normOut.kind = "throw" => normOut.isError
        /\ IsResponse /\ ~Ok(normIn.status) =>
               /\ normOut.kind = "throw"
               /\ normOut.message =
                      FirstPresent(normIn.body, HttpStatusMsg(normIn.status))
        /\ normIn.error = AbortError =>
               /\ normOut.kind = "throw"
               /\ SubSeq(normOut.message, 1, 2) = <<"Request", "timeout">>
        /\ normIn.error = NonErrorThrown =>
               /\ normOut.kind = "throw"
               /\ normOut.message = <<"Unknown", "error", "occurred">>
        /\ IsResponse /\ Ok(normIn.status) => normOut.kind = "value"

\* The first of detail and message that is truthy
FirstTruthy(body, fallback) ==
    IF body.json # "object" THEN fallback
    ELSE IF body.detail \notin {Undefined, JsStr(<<>>)} THEN ToStr(body.detail)
    ELSE IF body.message \notin {Undefined, JsStr(<<>>)} THEN ToStr(body.message)
    ELSE fallback

\* C4 (amended): every failure is an Error.  A non-OK response whose body is
\* not the JSON value null gives an Error with the body's detail if truthy,
\* otherwise its message if truthy, otherwise HTTP <status>: <statusText>
\* (also when the body is not JSON); a non-OK response with body null gives
\* the TypeError of reading a property of null.  An abort gives the
\* 'Request timeout' Error, a thrown non-Error 'Unknown error occurred', any
\* other Error fetch rejects with is passed on unchanged.  An OK response
\* gives no Error exactly when its body is JSON; otherwise it gives the
\* SyntaxError of response.json().
C4_ErrorNormalizationAmended ==
    NormDone =>
        /\ normOut.kind = "throw" => normOut.isError
        /\ IsResponse /\ ~Ok(normIn.status) /\ normIn.body.json # "null" =>
               /\ normOut.kind = "throw"
               /\ normOut.name = "Error"
               /\ normOut.message =
                      FirstTruthy(normIn.body, HttpStatusMsg(normIn.status))
        /\ IsResponse /\ ~Ok(normIn.status) /\ normIn.body.json = "null" =>
               normOut = NullPropertyError
        /\ normIn.error = AbortError =>
               /\ normOut.kind = "throw"
               /\ normOut.name = "Error"
               /\ SubSeq(normOut.message, 1, 2) = <<"Request", "timeout">>
        /\ normIn.error = NonErrorThrown =>
               /\ normOut.kind = "throw"
               /\ normOut.message = <<"Unknown", "error", "occurred">>
        /\ normIn.error = NetworkError => normOut = NetworkError
        /\ IsResponse /\ Ok(normIn.status) =>
               IF normIn.body.json = "invalid"
               THEN normOut = JsonSyntaxError
               ELSE normOut.kind = "value"

\* an OK response whose body is not JSON has been reported
C4_Witness ==
    /\ NormDone
    /\ IsResponse /\ Ok(normIn.status) /\ normIn.body.json = "invalid"
    /\ normOut.kind = "throw"

-----------------------------------------------------------------------------
(* Claims about the route guard *)

\* C5: ProtectedRoute shows its children only when auth loading is false and
\* a user is present, redirects to /login when loading is false and no user
\* is present, and shows neither while loading is true.
C5_ProtectedRoute ==
    /\ routeView = "children" => ~loading /\ user # Null
    /\ ~loading /\ user = Null => routeView = "redirect:/login"
    /\ loading => routeView \notin {"children", "redirect:/login"}

C5_Witness ==
    /\ routeView = "children"
    /\ user \in Users

-----------------------------------------------------------------------------
(* Claims about FileUpload *)

PhaseRank(ph) ==
    CASE ph = "uploading"  -> 0
      [] ph = "processing" -> 1
      [] ph = "saving"     -> 2
      [] ph = "complete"   -> 3

\* C6 (as claimed): while an upload is in flight the phase never moves back
\* to an earlier phase, and 'saving' is entered from 'processing' only.
C6_PhaseLifecycle ==
    [][ fuUploading /\ fuUploading' =>
            /\ PhaseRank(fuPhase') >= PhaseRank(fuPhase)
            /\ fuPhase' = "saving" /\ fuPhase # "saving" =>
                   fuPhase = "processing" ]_vars

\* C7: while the upload request is in flight the progress value stays below
\* 100, and it is 100 only after uploadFile resolved or was rejected with an
\* error that reports a timeout.
C7_ProgressBelow100InFlight ==
    /\ fuUploading => fuProgress < Pct(100)
    /\ fuProgress = Pct(100) =>
           /\ ~fuUploading
           /\ \/ fuLastResult.kind = "value"
              \/ /\ fuLastResult.kind = "throw"
                 /\ \/ Includes(ToLowerCase(fuLastResult.message), <<"timeout">>)
                    \/ Includes(ToLowerCase(fuLastResult.message),
                                <<"longer", "than", "expected">>)

\* the timer has driven the progress of a pending upload up to its cap
C7_Witness ==
    /\ fuUploading
    /\ fuPhase = "saving"
    /\ fuProgress >= Pct(95)

-----------------------------------------------------------------------------
(* Claims about the view components *)

\* C8 (as claimed): InsightsContainer requests insights for its props when it
\* mounts, and when the parent changes the selected period of a mounted
\* InsightsContainer, the period it holds is the new one and a request for
\* the new period is under way.
C8_RefetchOnPropChange ==
    [][ /\ ~IcMounted /\ IcMounted' =>
              /\ icSelected' = selectedPeriod'
              /\ \E f \in icFetches' : f.period = selectedPeriod'
        /\ IcMounted /\ IcMounted' /\ selectedPeriod' # selectedPeriod =>
              /\ icSelected' = selectedPeriod'
              /\ \E f \in icFetches' : f.period = selectedPeriod' ]_vars

\* C9 (as claimed): once no load is pending, the financial data Dashboard
\* holds is none or the data of the selected period.
C9_DataOfSelectedPeriod ==
    DbMounted /\ dbLoads = {} =>
        dbData = NoData \/ dbData.period = selectedPeriod

\* C10 (as claimed): two session ids held are the same exactly when they are
\* held by the same user for the same period.
C10_SessionPerUserAndMonth ==
    \A a \in chHeld, b \in chHeld :
        (a.id = b.id) <=> (a.user = b.user /\ a.period = b.period)

-----------------------------------------------------------------------------
(* Claims about the advisor's chat *)

\* C11 (as claimed): when the advisor is switched to a period, the
\* conversation exchanged for that period before (and not cleared since) is
\* shown.
C11_ChatMemoryPerPeriod ==
    [][ ChMounted /\ ChMounted' /\ chSelected' # chSelected =>
            \A i \in 1..Len(chExchanged[chSelected']) :
                chExchanged[chSelected'][i] \in Range(chMessages') ]_vars

\* C16 (as claimed): a change of the selected period leaves only the greeting
\* and a history length of 0, and every message shown belongs to a question
\* asked under the period that is selected.
C16_PeriodChangeClearsChat ==
    [][ /\ ChMounted /\ ChMounted' /\ chSelected' # chSelected =>
              chMessages' = <<>> /\ chHistoryLength' = 0
        /\ ChMounted' =>
              \A m \in Range(chMessages') : m.period = chSelected' ]_vars

\* C17 (as claimed): when clearChat ends with the 'Clear Failed' notice, the
\* message list holds only the greeting and the history length is 0.
C17_ClearFailedStillClearsUi ==
    [][ /\ ChMounted /\ ChMounted'
        /\ Len(chClears') < Len(chClears)
        /\ chToast' = "Clear Failed"
        => chMessages' = <<>> /\ chHistoryLength' = 0 ]_vars

\* a message is sent: the list grows by a user message and a request starts
MessageSent == chSends' = chSends + 1
\* the pending chat request fails
ChatRequestFails ==
    /\ ChMounted /\ chSend # <<>> /\ chSend' = <<>> /\ ChMounted'
    /\ chMessages'[Len(chMessages')].error

\* C18 (as claimed): no message is sent while disconnected; a failed chat
\* request leaves the status 'disconnected'; and the status leaves
\* 'disconnected' only by a connection check that succeeded, so that nothing
\* can be sent in between.
C18_NoSendUntilCheckSucceeds ==
    [][ /\ chConnection = "disconnected" => ~MessageSent
        /\ ChatRequestFails => chConnection' = "disconnected"
        /\ ChMounted /\ ChMounted' /\ chConnection = "disconnected"
              /\ chConnection' # "disconnected"
           => chChecks' < chChecks /\ chConnection' = "connected" ]_vars

\* C18 (amended): no message is sent while disconnected; a failed chat
\* request leaves the status 'disconnected'; and the status leaves
\* 'disconnected' only when a connection check starts (Retry, status
\* 'checking'), when one succeeds, or when the reply to a message sent
\* earlier arrives.
C18_NoSendWhileDisconnected ==
    [][ /\ chConnection = "disconnected" => ~MessageSent
        /\ ChatRequestFails => chConnection' = "disconnected"
        /\ ChMounted /\ ChMounted' /\ chConnection = "disconnected"
              /\ chConnection' # "disconnected"
           => \/ chChecks' > chChecks /\ chConnection' = "checking"
              \/ chChecks' < chChecks /\ chConnection' = "connected"
              \/ chSend # <<>> /\ chSend' = <<>>
                    /\ chConnection' = "connected" ]_vars

\* after a failed request and Retry, a message was sent while the check is
\* still running
C18_Witness ==
    /\ ChMounted
    /\ chConnection = "checking"
    /\ chTyping
    /\ chChecks > 0
    /\ \E m \in Range(chMessages) : m.error

-----------------------------------------------------------------------------
(* Claims about the login screen *)

\* C19 (as claimed): when the sign-in failed, handleGoogleSignIn shows 'Sign
\* In Failed' and not 'Welcome!'; 'Welcome!' is shown only after a sign-in
\* that succeeded.
C19_LoginNoticeFaithful ==
    [][ signInPhase # "idle" /\ signInPhase' = "idle" =>
            loginToast' = IF signInPhase = "resolved" THEN "Welcome!"
                          ELSE "Sign In Failed" ]_vars

\* C20: whenever nobody is signed in and auth is not loading, Dashboard holds
\* no financial data, also when a load started before the logout settles
\* after it
C20_DataClearedOnLogout ==
    DbMounted /\ ~loading /\ user = Null => dbData = NoData

\* C12: calculateCategoryTotals returns exactly one summary for every category
\* that has a transaction with a positive debit or credit; its total_spent
\* is the sum of the debits, its total_income the sum of the credits and its
\* transactions the number of the category's counted transactions; the other
\* transactions contribute to no summary
Positive(a) == a.t = "number" /\ a.n > 0
Amount(a) == IF a.t = "number" THEN a.n ELSE 0
CountedOf(c) ==
    {i \in 1..Len(ctTransactions) :
        /\ ctTransactions[i].category = c
        /\ \/ Positive(ctTransactions[i].debit_inr)
           \/ Positive(ctTransactions[i].credit_inr)}
RECURSIVE SumOf(_, _)
SumOf(I, field) ==
    IF I = {} THEN 0
    ELSE LET i == CHOOSE j \in I : TRUE
         IN  Amount(ctTransactions[i][field]) + SumOf(I \ {i}, field)
SummariesOf(c) ==
    {i \in 1..Len(ctResult.summaries) : ctResult.summaries[i].category = c}
C12_CategoryTotals ==
    ctResult.done =>
        \A c \in Categories :
            IF CountedOf(c) = {}
            THEN SummariesOf(c) = {}
            ELSE /\ Cardinality(SummariesOf(c)) = 1
                 /\ \A i \in SummariesOf(c) :
                        /\ ctResult.summaries[i].total_spent =
                               SumOf(CountedOf(c), "debit_inr")
                        /\ ctResult.summaries[i].total_income =
                               SumOf(CountedOf(c), "credit_inr")
                        /\ ctResult.summaries[i].transactions =
                               Cardinality(CountedOf(c))
C12_Witness ==
    /\ ctResult.done
    /\ Len(ctResult.summaries) = 1
    /\ \E c \in Categories :
           /\ Cardinality(CountedOf(c)) = 2
           /\ \E i \in 1..Len(ctTransactions) :
                  ctTransactions[i].category = c /\ i \notin CountedOf(c)

\* C13: the processed rows of TransactionTable are exactly the rows of the
\* data whose description or category contains the search term, whatever the
\* case of the letters, and whose category is the selected one (any category
\* for 'all'); each such row appears once, unaltered
SameLetter(x, y) == Letter(x) = Letter(y)
ContainsTerm(text, term) ==
    \E i \in 0..(Len(text) - Len(term)) :
        \A j \in 1..Len(term) : SameLetter(text[i + j], term[j])
Wanted(t) ==
    /\ ContainsTerm(t.description, ttSearchTerm)
       \/ ContainsTerm(t.category, ttSearchTerm)
    /\ ttCategoryFilter = AllCategories \/ t.category = ttCategoryFilter
C13_ProcessedRows ==
    /\ \A i \in 1..Len(processedData) :
           /\ processedData[i] \in Range(ttData)
           /\ Wanted(processedData[i])
           /\ \A j \in 1..Len(processedData) :
                  processedData[j] = processedData[i] => j = i
    /\ \A t \in Range(ttData) : Wanted(t) => t \in Range(processedData)
C13_Witness ==
    /\ ttSearchTerm = <<"A", "B">>
    /\ ttCategoryFilter = <<"a">>
    /\ Len(ttData) = 2
    /\ Len(processedData) = 1
    /\ processedData[1].description = <<"A", "b">>
    /\ \E t \in Range(ttData) : t.category = <<"a">> /\ ~Wanted(t)

\* C15: the file list of DataUpload never holds more than maxFiles entries
C15_AtMostMaxFiles == Len(duFiles) <= MaxFiles

\* C14: a chosen file is selected (FileUpload) or sent (DataUpload) exactly
\* when its MIME type is a CSV/Excel type or its name ends with .csv, .xlsx
\* or .xls in any case; FileUpload selects nothing while nobody is signed
\* in; a rejected file neither replaces the selection nor is uploaded
CsvOrExcel(f) ==
    \/ f.type \in {"text/csv", "application/vnd.ms-excel",
                   "application/vnd.openxmlformats-officedocument.spreadsheetml.sheet"}
    \/ f.ext \in {".csv", ".CSV", ".xlsx", ".XLSX", ".xls", ".XLS"}
Selects(f) ==
    /\ CsvOrExcel(f) /\ user # Null => fuFile' = f
    /\ ~(CsvOrExcel(f) /\ user # Null) => fuFile' = fuFile
OfferHandled == duOffered' # <<>> /\ dataUploadVars' # dataUploadVars
NewEntries == SubSeq(duFiles', Len(duFiles) + 1, Len(duFiles'))
Sends(list) ==
    /\ Len(NewEntries) = Len(list)
    /\ \A i \in 1..Len(list) :
           /\ NewEntries[i].ext = list[i].ext
           /\ NewEntries[i].id \in duPending' \ duPending
    /\ Cardinality(duPending') = Cardinality(duPending) + Len(list)
C14_UploadValidation ==
    [][ /\ \A f \in Files : HandleFileChange(f) => Selects(f)
        /\ OfferHandled => Sends(SelectSeq(duOffered', CsvOrExcel)) ]_vars

\* C14, amended: DataUpload sends the valid files of a drop or selection
\* only when its list held fewer than maxFiles entries at that moment
C14_UploadValidationBelowLimit ==
    [][ /\ \A f \in Files : HandleFileChange(f) => Selects(f)
        /\ OfferHandled =>
               IF Len(duFiles) < MaxFiles
               THEN Sends(SelectSeq(duOffered', CsvOrExcel))
               ELSE Sends(<<>>) ]_vars
C14_Witness ==
    /\ user # Null
    /\ fuFile.ext = ".XLSX"
    /\ fuToast = "Invalid File Type"
    /\ Len(duFiles) = MaxFiles
    /\ duToast = "Maximum Files Reached"
    /\ Len(duOffered) = 2
    /\ \E i \in 1..Len(duFiles) : duFiles[i].ext = ".pdf"

-----------------------------------------------------------------------------
(* Claims about the outcomes of an upload *)

\* uploadFile resolved, and the request was aborted by the client's timer
Resolved(o) == UploadOutcome(o).kind = "value"
TimedOut(o) == o.t = "reject" /\ o.error = AbortError
ShownAsComplete ==
    /\ fuProgress' = Pct(100)
    /\ fuPhase' = "complete"
    /\ fuToast' = "Upload Sent Successfully"
UploadEnds == fuUploading /\ ~fuUploading'

\* C21: onUploadSuccess is called once for every upload whose request
\* resolved and never for one that timed out or failed; a timeout is shown
\* as completed, without the callback
C21_CallbackOncePerResolved ==
    [][ /\ \A o \in UploadOutcomes :
               UploadSettles(o) =>
                   /\ fuSuccessCalls' =
                          fuSuccessCalls + (IF Resolved(o) THEN 1 ELSE 0)
                   /\ TimedOut(o) => ShownAsComplete
        /\ ~UploadEnds => fuSuccessCalls' = fuSuccessCalls ]_vars

\* The same with a result of null counted as a failure: every other outcome
\* is handled as C21 says
C21_CallbackOncePerResult ==
    [][ /\ \A o \in UploadOutcomes :
               UploadSettles(o) =>
                   /\ fuSuccessCalls' =
                          fuSuccessCalls +
                          (IF Resolved(o) /\ o.body.json # "null" THEN 1 ELSE 0)
                   /\ TimedOut(o) => ShownAsComplete
        /\ ~UploadEnds => fuSuccessCalls' = fuSuccessCalls ]_vars

\* What the catch block of handleUpload is given, if anything
Succeeded(o) == Resolved(o) /\ o.body.json # "null"
CaughtMessage(o) ==
    LET thrown == UploadThrown(o, UploadOutcome(o))
    IN  IF thrown.isError THEN thrown.message ELSE <<>>
MentionsTimeout(msg) ==
    \/ \E i \in 1..Len(msg) : msg[i] \in {"timeout", "Timeout"}
    \/ \E i \in 1..(Len(msg) - 2) :
           /\ msg[i] \in {"longer", "Longer"}
           /\ msg[i + 1] = "than"
           /\ msg[i + 2] = "expected"
HardError(o) == ~Succeeded(o) /\ ~MentionsTimeout(CaughtMessage(o))

\* C22: an upload error that is not a timeout leaves the selected file, the
\* year and the month as they were and puts the progress back to 0 and the
\* phase to 'uploading'; the selected file is cleared only by a successful
\* upload or a timeout
C22_HardErrorKeepsSelection ==
    [][ /\ \A o \in UploadOutcomes :
               UploadSettles(o) =>
                   /\ HardError(o) =>
                          /\ fuFile' = fuFile
                          /\ fuPeriod' = fuPeriod
                          /\ fuProgress' = 0
                          /\ fuPhase' = "uploading"
                   /\ ~HardError(o) => fuFile' = NoFile
        /\ (fuFile # NoFile /\ fuFile' = NoFile) => UploadEnds ]_vars
C22_Witness ==
    /\ fuLastResult.kind = "throw"
    /\ fuToast = "Upload Failed"
    /\ fuFile # NoFile
    /\ fuPeriod = <<2024, 2>>
    /\ fuProgress = 0
    /\ fuPhase = "uploading"
    /\ ~fuUploading
    /\ fuUploads = 2
    /\ fuSuccessCalls = 1

\* The upload requests that have been sent and have not settled: the one
\* the mounted instance awaits and those of instances that left the page
UploadsInFlight == (IF fuUploading THEN 1 ELSE 0) + Len(fuStaleCalls)

\* C24: FileUpload has at most one upload request in flight: an upload
\* starts only with a signed-in user, a selected file and no upload running,
\* and the uploading flag of the FileUpload on the page is true exactly
\* while the request is pending
C24_OneUploadInFlight ==
    [][ /\ fuUploads' = fuUploads + 1 =>
               /\ user # Null
               /\ fuFile # NoFile
               /\ UploadsInFlight = 0
        /\ UploadsInFlight' <= 1
        /\ FuMounted' => (fuUploading' <=> (UploadsInFlight' = 1)) ]_vars

\* C24, for an instance that stays on the page: however its request ends,
\* the uploading flag becomes false again
C24_UploadingEnds == fuUploading ~> ~fuUploading

\* C25: for a list of transactions whose debit and credit amounts are not
\* negative, the total_spent of the summaries of calculateCategoryTotals add
\* up to getTotalSpent of the list, the total_income to getTotalIncome, and
\* the transaction counts to the number of transactions with a positive
\* debit or credit
NotNegative(a) == a.t = "number" => a.n >= 0
NonNegativeAmounts ==
    \A i \in 1..Len(ctTransactions) :
        /\ NotNegative(ctTransactions[i].debit_inr)
        /\ NotNegative(ctTransactions[i].credit_inr)
\* the sum a caller computes over the result, with the numbers' addition
RECURSIVE SumOver(_, _)
SumOver(summaries, field) ==
    IF summaries = <<>> THEN 0
    ELSE FAdd(SumOver(SubSeq(summaries, 1, Len(summaries) - 1), field),
              summaries[Len(summaries)][field])
WithPositiveAmount ==
    {i \in 1..Len(ctTransactions) :
        \/ Positive(ctTransactions[i].debit_inr)
        \/ Positive(ctTransactions[i].credit_inr)}
Compared == ctResult.done /\ ctResult.totals # <<>>
TotalsAgree ==
    /\ SumOver(ctResult.summaries, "total_spent") = ctResult.totals[1]
    /\ SumOver(ctResult.summaries, "total_income") = ctResult.totals[2]
CountsAgree ==
    SumOver(ctResult.summaries, "transactions") =
        Cardinality(WithPositiveAmount)
C25_HelpersAgree ==
    Compared /\ NonNegativeAmounts => TotalsAgree /\ CountsAgree

\* C25, amended: the counts agree, and the totals agree when the amounts'
\* sums are exact, that is, when no addition has to round
ExactTotal(field) ==
    SumOf(1..Len(ctTransactions), field) <= MaxExact
C25_HelpersAgreeWhenExact ==
    Compared /\ NonNegativeAmounts =>
        /\ CountsAgree
        /\ ExactTotal("debit_inr") /\ ExactTotal("credit_inr") => TotalsAgree
C25_Witness ==
    /\ Compared
    /\ NonNegativeAmounts
    /\ ExactTotal("debit_inr") /\ ExactTotal("credit_inr")
    /\ Len(ctResult.summaries) = 2
    /\ Len(ctTransactions) = 3
    /\ Cardinality(WithPositiveAmount) = 2
    /\ ctResult.totals = <<2, 1>>

\* C23: 'Create Budget Plan' opens the plan summary dialog only when at
\* least one recommendation is selected; closing the dialog empties the
\* selection; selecting the same recommendation twice in a row restores the
\* selection set
PlanOpens == ~bpPlanOpen /\ bpPlanOpen'
PlanCloses == bpPlanOpen /\ ~bpPlanOpen'
SameToggledAgain == bpBefore.rec # NoRec /\ bpBefore'.rec = bpBefore.rec
C23_PlanDialog ==
    [][ /\ PlanOpens => bpApplied # <<>>
        /\ PlanCloses => bpApplied' = <<>>
        /\ SameToggledAgain => AsSet(bpApplied') = bpBefore.selected ]_vars

\* The closing and the toggling are as C23 says
C23_CloseAndToggle ==
    [][ /\ PlanCloses => bpApplied' = <<>>
        /\ SameToggledAgain => AsSet(bpApplied') = bpBefore.selected ]_vars

====
